---- MODULE Spec2Model ----
(***************************************************************************)
(* A model of pdf_kindle_optimizer/core.py: the content-bounds detection   *)
(* of PDFProcessor (text path, Otsu binarisation, connected-component      *)
(* filter, bounds extraction), the page analysis loop, the uniform crop    *)
(* box, crop_and_save and KindleOptimizer.optimize_for_kindle, and of the  *)
(* per-page margin selection of the crop command and the page order of the *)
(* reorder command of cli.py.                                              *)
(*                                                                         *)
(* Numbers.  Python computes the boxes in floating point.  The model       *)
(* computes them exactly, in integers: every page coordinate is a number   *)
(* of units, UnitsPerPoint units to a PDF point, and a margin fraction is  *)
(* a numerator over MarginDen.  UnitsPerPoint is chosen so that every      *)
(* product and quotient the code forms on the modelled inputs is a whole   *)
(* number of units (width * margin, pixels / (dpi / 72)).                  *)
(* A pixel is <<row, column>>, as numpy indexes img_array.                 *)
(***************************************************************************)
EXTENDS Integers, Sequences, FiniteSets, TLC

VARIABLES doc, cfg, page_infos, pc, idx, det, output, progress, arg, res

vars == <<doc, cfg, page_infos, pc, idx, det, output, progress, arg, res>>

\* ------------------------------------------------------------------ units

MarginDen == 5 * 10
UnitsPerPoint == 25 * MarginDen
PointsPerInch == 72

Min(a, b) == IF a <= b THEN a ELSE b
Max(a, b) == IF a >= b THEN a ELSE b
Abs(a) == IF a >= 0 THEN a ELSE 0 - a
SetMin(S) == CHOOSE m \in S : \A n \in S : m <= n
SetMax(S) == CHOOSE m \in S : \A n \in S : m >= n

NoBox == [none |-> TRUE]
CropBox(x0, y0, x1, y1) == [x0 |-> x0, y0 |-> y0, x1 |-> x1, y1 |-> y1]
BoxWidth(b) == b.x1 - b.x0
BoxHeight(b) == b.y1 - b.y0

\* --------------------------------------------- exact products (Python ints)
\* The between-class variance of a page-sized image exceeds 32 bits; Python
\* integers and doubles hold it.  Naturals are little-endian digit sequences.

BigBase == 100 * 100

RECURSIVE ToBig(_)
ToBig(n) == IF n = 0 THEN <<>> ELSE <<n % BigBase>> \o ToBig(n \div BigBase)

RECURSIVE BigAdd(_, _, _)
BigAdd(A, B, carry) ==
  IF A = <<>> /\ B = <<>> THEN (IF carry = 0 THEN <<>> ELSE <<carry>>)
  ELSE LET a == IF A = <<>> THEN 0 ELSE Head(A)
           b == IF B = <<>> THEN 0 ELSE Head(B)
           v == a + b + carry
       IN <<v % BigBase>> \o BigAdd(IF A = <<>> THEN <<>> ELSE Tail(A),
                                    IF B = <<>> THEN <<>> ELSE Tail(B),
                                    v \div BigBase)

RECURSIVE BigMulDigit(_, _, _)
BigMulDigit(A, d, carry) ==
  IF A = <<>> THEN (IF carry = 0 THEN <<>> ELSE <<carry>>)
  ELSE LET v == Head(A) * d + carry
       IN <<v % BigBase>> \o BigMulDigit(Tail(A), d, v \div BigBase)

RECURSIVE BigMul(_, _)
BigMul(A, B) ==
  IF B = <<>> \/ A = <<>> THEN <<>>
  ELSE BigAdd(BigMulDigit(A, Head(B), 0), <<0>> \o BigMul(A, Tail(B)), 0)

RECURSIVE BigTrim(_)
BigTrim(A) ==
  IF A = <<>> THEN <<>>
  ELSE IF A[Len(A)] = 0 THEN BigTrim(SubSeq(A, 1, Len(A) - 1)) ELSE A

RECURSIVE BigGreaterFrom(_, _, _)
BigGreaterFrom(A, B, k) ==
  IF k = 0 THEN FALSE
  ELSE IF A[k] # B[k] THEN A[k] > B[k] ELSE BigGreaterFrom(A, B, k - 1)

BigGreater(A0, B0) ==
  LET A == BigTrim(A0)
      B == BigTrim(B0)
  IN IF Len(A) # Len(B) THEN Len(A) > Len(B) ELSE BigGreaterFrom(A, B, Len(A))

\* ------------------------------------------------------------------ images
\* A rendered page: h rows, w columns, px[<<row, col>>] in 0..255.

Pixels(img) == (0 .. img.h - 1) \X (0 .. img.w - 1)
GrayMax == 255

\* ------------------------------------------------------------------- Otsu
\* core.py 207-235.  A between-class variance
\*   weight_bg * weight_fg * (mean_bg - mean_fg) ** 2
\* is kept by its operands; its exact value is a^2 / d with
\*   a = |sum_bg * weight_fg - sum_fg * weight_bg|,  d = weight_bg * weight_fg.
\* The code evaluates it in double precision.  Two different values of the
\* modelled images differ by far more than the rounding error, so `>' on the
\* doubles is `>' on the exact values.  Two splits with the same operands give
\* the same double.  Two different splits whose exact values are equal give
\* equal doubles when every intermediate result is exact in a double (the
\* means are dyadic and the products fit 53 bits); otherwise the rounding of
\* the divisions and of pow() decides, and both outcomes are kept.

Variance(weight_bg, weight_fg, sum_bg, sum_fg) ==
  [wb |-> weight_bg, wf |-> weight_fg, sb |-> sum_bg, sf |-> sum_fg]

ZeroVariance == [wb |-> 0, wf |-> 0, sb |-> 0, sf |-> 0]

VarNum(v) ==
  LET a == ToBig(Abs(v.sb * v.wf - v.sf * v.wb)) IN BigMul(a, a)
VarDen(v) == IF v.wb * v.wf = 0 THEN <<1>> ELSE ToBig(v.wb * v.wf)

VarianceGreater(v, m) ==
  BigGreater(BigMul(VarNum(v), VarDen(m)), BigMul(VarNum(m), VarDen(v)))

VarianceEqual(v, m) == ~VarianceGreater(v, m) /\ ~VarianceGreater(m, v)

RECURSIVE Gcd(_, _)
Gcd(a, b) == IF b = 0 THEN a ELSE Gcd(b, a % b)

RECURSIVE IsPowerOfTwo(_)
IsPowerOfTwo(n) == n = 1 \/ (n > 1 /\ n % 2 = 0 /\ IsPowerOfTwo(n \div 2))

\* sum / weight is a double without rounding
ExactMean(sum, weight) == weight > 0 /\ IsPowerOfTwo(weight \div Gcd(sum, weight))

TwoTo53 == BigMul(ToBig(8192 * 8192), ToBig(8192 * 16384))

\* every step of the variance is exact in double precision
ExactInDouble(v) ==
  \/ v.wb * v.wf = 0
  \/ /\ ExactMean(v.sb, v.wb)
     /\ ExactMean(v.sf, v.wf)
     /\ BigGreater(TwoTo53, BigMul(VarNum(v), VarDen(v)))

SameOperands(v, m) == v.wb = m.wb /\ v.sb = m.sb /\ v.wf = m.wf /\ v.sf = m.sf

\* the outcomes of `variance > max_variance' (line 231)
GreaterOutcomes(v, m) ==
  IF SameOperands(v, m) THEN {FALSE}
  ELSE IF VarianceGreater(v, m) THEN {TRUE}
  ELSE IF VarianceGreater(m, v) THEN {FALSE}
  ELSE IF ExactInDouble(v) /\ ExactInDouble(m) THEN {FALSE}
  ELSE {TRUE, FALSE}

\* np.histogram(img_array.flatten(), bins=256, range=(0, 256))
Histogram(img) ==
  LET levels == {img.px[p] : p \in Pixels(img)}
  IN [t \in 0 .. GrayMax |->
        IF t \in levels THEN Cardinality({p \in Pixels(img) : img.px[p] = t}) ELSE 0]

\* np.sum(np.arange(256) * hist) over lo .. hi
RECURSIVE SumRange(_, _, _)
SumRange(hist, lo, hi) ==
  IF lo = hi THEN lo * hist[lo]
  ELSE LET mid == (lo + hi) \div 2
       IN SumRange(hist, lo, mid) + SumRange(hist, mid + 1, hi)

OtsuDefault == 128

\* the loop variables before the first turn (lines 213-216)
OtsuStart ==
  [sum_bg |-> 0, weight_bg |-> 0, max_variance |-> ZeroVariance,
   optimal_threshold |-> OtsuDefault, broke |-> FALSE, lost |-> ZeroVariance]

\* OtsuTurn with `>=' for the `>' of line 231: the last of equal maxima
OtsuTurnLast(hist, total_pixels, sum_total, s, t) ==
  IF s.broke THEN {s}
  ELSE LET weight_bg == s.weight_bg + hist[t] IN
    IF weight_bg = 0 THEN {[s EXCEPT !.weight_bg = weight_bg]}
    ELSE LET weight_fg == total_pixels - weight_bg IN
      IF weight_fg = 0 THEN {[s EXCEPT !.weight_bg = weight_bg, !.broke = TRUE]}
      ELSE LET sum_bg == s.sum_bg + t * hist[t]
               variance == Variance(weight_bg, weight_fg, sum_bg, sum_total - sum_bg)
               g == ~VarianceGreater(s.max_variance, variance)
           IN {[sum_bg |-> sum_bg, weight_bg |-> weight_bg,
                max_variance |-> IF g THEN variance ELSE s.max_variance,
                optimal_threshold |-> IF g THEN t ELSE s.optimal_threshold,
                broke |-> FALSE,
                lost |-> IF g THEN ZeroVariance ELSE variance]}

\* one turn of the loop of lines 218-233 for candidate t: the loop variables
\* it can leave (broke: the loop has left through `break'; lost: the variance
\* last found not greater than max_variance, which the same operands give
\* again at the next t)
OtsuTurn(hist, total_pixels, sum_total, s, t) ==
  IF s.broke THEN {s}
  ELSE LET weight_bg == s.weight_bg + hist[t] IN
    IF weight_bg = 0 THEN {[s EXCEPT !.weight_bg = weight_bg]}
    ELSE LET weight_fg == total_pixels - weight_bg IN
      IF weight_fg = 0 THEN {[s EXCEPT !.weight_bg = weight_bg, !.broke = TRUE]}
      ELSE LET sum_bg == s.sum_bg + t * hist[t]
               variance == Variance(weight_bg, weight_fg, sum_bg, sum_total - sum_bg)
               greater == IF variance = s.lost THEN {FALSE}
                          ELSE GreaterOutcomes(variance, s.max_variance)
           IN {[sum_bg |-> sum_bg, weight_bg |-> weight_bg,
                max_variance |-> IF g THEN variance ELSE s.max_variance,
                optimal_threshold |-> IF g THEN t ELSE s.optimal_threshold,
                broke |-> FALSE,
                lost |-> IF g THEN ZeroVariance ELSE variance] : g \in greater}

\* the turns for t = lo .. hi in order, from each of the loop states in S
RECURSIVE OtsuTurns(_, _, _, _, _, _)
OtsuTurns(hist, total_pixels, sum_total, S, lo, hi) ==
  IF lo = hi
  THEN UNION {OtsuTurn(hist, total_pixels, sum_total, s, lo) : s \in S}
  ELSE LET mid == (lo + hi) \div 2
           first == OtsuTurns(hist, total_pixels, sum_total, S, lo, mid)
       IN IF first = {} THEN {}
          ELSE OtsuTurns(hist, total_pixels, sum_total, first, mid + 1, hi)

\* the thresholds the Otsu branch (threshold == 0) can end with
OtsuThresholds(img) ==
  LET hist == Histogram(img)
      sum_total == SumRange(hist, 0, GrayMax)
  IN IF hist = <<>> THEN {}
     ELSE {s.optimal_threshold :
             s \in OtsuTurns(hist, img.h * img.w, sum_total, {OtsuStart}, 0, GrayMax)}

\* ------------------------------------------------------------ text bounds
\* A page is [rect, blocks, img].  rect is page.rect in units.  blocks is
\* page.get_text("dict")["blocks"]: a text block is [lines |-> <<line>>], an
\* image block has no "lines" field; a line is [spans |-> <<span>>]; a span
\* is [bbox |-> <<x0, y0, x1, y1>>, text |-> <<characters>>].

Whitespace ==
  {" ", "\t", "\n", "\r", "\f", "U+000B", "U+001C", "U+001D", "U+001E",
   "U+001F", "U+0085", "U+00A0", "U+1680", "U+2000", "U+2001", "U+2002",
   "U+2003", "U+2004", "U+2005", "U+2006", "U+2007", "U+2008", "U+2009",
   "U+200A", "U+2028", "U+2029", "U+202F", "U+205F", "U+3000"}
\* the characters str.strip() removes (those of str.isspace()); a character
\* that has no escape in a string here is written as its code point

\* str.strip(): leading and trailing whitespace removed
RECURSIVE StripLeft(_)
StripLeft(text) ==
  IF text # <<>> /\ Head(text) \in Whitespace THEN StripLeft(Tail(text)) ELSE text

RECURSIVE StripRight(_)
StripRight(text) ==
  IF text # <<>> /\ text[Len(text)] \in Whitespace
  THEN StripRight(SubSeq(text, 1, Len(text) - 1))
  ELSE text

Strip(text) == StripRight(StripLeft(text))

\* lines 127-134: one span folded into the running extremes
AddSpan(acc, span) ==
  IF Strip(span.text) # <<>>
  THEN [x0_min |-> Min(acc.x0_min, span.bbox[1]),
        y0_min |-> Min(acc.y0_min, span.bbox[2]),
        x1_max |-> Max(acc.x1_max, span.bbox[3]),
        y1_max |-> Max(acc.y1_max, span.bbox[4]),
        has_text |-> TRUE]
  ELSE acc

RECURSIVE FoldSpans(_, _)
FoldSpans(spans, acc) ==
  IF spans = <<>> THEN acc ELSE FoldSpans(Tail(spans), AddSpan(acc, Head(spans)))

RECURSIVE FoldLines(_, _)
FoldLines(lines, acc) ==
  IF lines = <<>> THEN acc
  ELSE FoldLines(Tail(lines), FoldSpans(Head(lines).spans, acc))

RECURSIVE FoldBlocks(_, _)
FoldBlocks(blocks, acc) ==
  IF blocks = <<>> THEN acc
  ELSE FoldBlocks(Tail(blocks),
                  IF "lines" \in DOMAIN Head(blocks)
                  THEN FoldLines(Head(blocks).lines, acc)
                  ELSE acc)

\* width * margin_percent, margin_percent = margin / MarginDen
MarginOf(extent, margin) == (extent * margin) \div MarginDen

\* detect_content_bounds_by_text without the max/min of lines 144-147
detect_content_bounds_by_text_unclamped(page, margin) ==
  LET original_rect == page.rect
      acc == FoldBlocks(page.blocks,
                        [x0_min |-> original_rect.x1, y0_min |-> original_rect.y1,
                         x1_max |-> original_rect.x0, y1_max |-> original_rect.y0,
                         has_text |-> FALSE])
      margin_x == MarginOf(BoxWidth(original_rect), margin)
      margin_y == MarginOf(BoxHeight(original_rect), margin)
  IN IF ~acc.has_text THEN NoBox
     ELSE CropBox(acc.x0_min - margin_x, acc.y0_min - margin_y,
                  acc.x1_max + margin_x, acc.y1_max + margin_y)

detect_content_bounds_by_text(page, margin) ==
  LET original_rect == page.rect
      acc == FoldBlocks(page.blocks,
                        [x0_min |-> original_rect.x1, y0_min |-> original_rect.y1,
                         x1_max |-> original_rect.x0, y1_max |-> original_rect.y0,
                         has_text |-> FALSE])
      margin_x == MarginOf(BoxWidth(original_rect), margin)
      margin_y == MarginOf(BoxHeight(original_rect), margin)
  IN IF ~acc.has_text THEN NoBox
     ELSE CropBox(Max(original_rect.x0, acc.x0_min - margin_x),
                  Max(original_rect.y0, acc.y0_min - margin_y),
                  Min(original_rect.x1, acc.x1_max + margin_x),
                  Min(original_rect.y1, acc.y1_max + margin_y))

\* ------------------------------------------------------------ binarisation

\* img_array < threshold (lines 240 and 318)
Binarize(img, threshold) == {p \in Pixels(img) : img.px[p] < threshold}

\* -------------------------------------------------- connected components
\* ndimage.label(binary_mask) with its default structure: 4-connectivity,
\* labels numbered in raster order of each component's first pixel.

Neighbours4(p) ==
  {<<p[1] - 1, p[2]>>, <<p[1] + 1, p[2]>>, <<p[1], p[2] - 1>>, <<p[1], p[2] + 1>>}

RECURSIVE Flood(_, _, _)
Flood(mask, done, frontier) ==
  IF frontier = {} THEN done
  ELSE LET nxt == ((UNION {Neighbours4(p) : p \in frontier}) \cap mask) \ done
       IN Flood(mask, done \cup nxt, nxt)

FirstPixel(mask) ==
  LET row == SetMin({p[1] : p \in mask})
  IN <<row, SetMin({p[2] : p \in {q \in mask : q[1] = row}})>>

RECURSIVE Label(_)
Label(mask) ==
  IF mask = {} THEN <<>>
  ELSE LET first == FirstPixel(mask)
           component == Flood(mask, {first}, {first})
       IN <<component>> \o Label(mask \ component)

\* ndimage.find_objects: the bounding slices of one component (lines 262-269)
ComponentOf(pixels) ==
  [pixels |-> pixels,
   component_size |-> Cardinality(pixels),
   y_start |-> SetMin({p[1] : p \in pixels}),
   y_end |-> SetMax({p[1] : p \in pixels}) + 1,
   x_start |-> SetMin({p[2] : p \in pixels}),
   x_end |-> SetMax({p[2] : p \in pixels}) + 1]

CompHeight(c) == c.y_end - c.y_start
CompWidth(c) == c.x_end - c.x_start

BaseDpi == 150
EdgePixels == 5
ShadowTenths == 3
HeightSlack == 3
MaxAspect == 30

\* The resolutions used here (15, 30, 150) are ones at which the doubles
\* 5 * dpi / 150.0, char_size * (dpi / 150.0), img_height * 0.3 and
\* img_width * 0.3 compare like the exact quotients below.
\* int(5 * dpi / 150.0)
EdgeMargin(dpi) == (EdgePixels * dpi) \div BaseDpi
\* int(char_size * (dpi / 150.0))
ScaledSize(char_size, dpi) == (char_size * dpi) \div BaseDpi

\* IsEdgeShadow with one half for the 0.3 of lines 286 and 290
IsEdgeShadowHalf(c, img_height, img_width, dpi) ==
  LET edge_margin == EdgeMargin(dpi)
      touches_left == c.x_start <= edge_margin
      touches_right == c.x_end >= img_width - edge_margin
      touches_top == c.y_start <= edge_margin
      touches_bottom == c.y_end >= img_height - edge_margin
  IN \/ (touches_left \/ touches_right) /\ 2 * CompHeight(c) > img_height
     \/ (touches_top \/ touches_bottom) /\ 2 * CompWidth(c) > img_width

\* lines 277-290
IsEdgeShadow(c, img_height, img_width, dpi) ==
  LET edge_margin == EdgeMargin(dpi)
      touches_left == c.x_start <= edge_margin
      touches_right == c.x_end >= img_width - edge_margin
      touches_top == c.y_start <= edge_margin
      touches_bottom == c.y_end >= img_height - edge_margin
  IN \/ (touches_left \/ touches_right) /\ 10 * CompHeight(c) > ShadowTenths * img_height
     \/ (touches_top \/ touches_bottom) /\ 10 * CompWidth(c) > ShadowTenths * img_width

\* lines 298-302
IsValidSize(c, dpi, min_char_size, max_char_size, min_content_pixels) ==
  LET min_size == ScaledSize(min_char_size, dpi)
      max_size == ScaledSize(max_char_size, dpi)
  IN /\ min_size <= CompHeight(c) /\ CompHeight(c) <= max_size * HeightSlack
     /\ min_size <= CompWidth(c) /\ CompWidth(c) <= max_size
     /\ c.component_size >= min_content_pixels

\* IsValidAspect with `<=' for the `<' of line 306
IsValidAspectInclusive(c) ==
  Max(CompHeight(c), CompWidth(c)) <= MaxAspect * Max(Min(CompHeight(c), CompWidth(c)), 1)

\* lines 305-306: max(h, w) / max(min(h, w), 1) < 30
IsValidAspect(c) ==
  Max(CompHeight(c), CompWidth(c)) < MaxAspect * Max(Min(CompHeight(c), CompWidth(c)), 1)

\* line 308
KeepsComponent(c, img, p) ==
  /\ ~IsEdgeShadow(c, img.h, img.w, p.dpi)
  /\ IsValidSize(c, p.dpi, p.min_char_size, p.max_char_size, p.min_content_pixels)
  /\ IsValidAspect(c)

\* lines 249-309: the union of the components that pass
KeptPixels(components, img, p) ==
  UNION {components[k].pixels :
           k \in {j \in 1 .. Len(components) : KeepsComponent(components[j], img, p)}}

\* ndimage.binary_dilation with np.ones((3, 3)), one iteration, border 0
Neighbours9(p) == {<<p[1] + dy, p[2] + dx>> : dy \in {-1, 0, 1}, dx \in {-1, 0, 1}}

Dilate(mask, img) == (UNION {Neighbours9(p) : p \in mask}) \cap Pixels(img)

DilateIterations == 2

\* DilateTimes without the dilation of line 313
DilateNever(mask, img, n) == mask

RECURSIVE DilateTimes(_, _, _)
DilateTimes(mask, img, n) ==
  IF n = 0 THEN mask ELSE DilateTimes(Dilate(mask, img), img, n - 1)

\* lines 243-315 on a binary mask: the labelled components with their
\* slices, the union of those kept (line 309), and the content mask
ContentFilter(binary_mask, img, p) ==
  LET components == Label(binary_mask)
      comps == [k \in 1 .. Len(components) |-> ComponentOf(components[k])]
      kept == KeptPixels(comps, img, p)
  IN IF Len(components) > 0
     THEN [num_features |-> Len(components), components |-> comps, kept |-> kept,
           content_mask |-> DilateTimes(kept, img, DilateIterations)]
     ELSE [num_features |-> 0, components |-> <<>>, kept |-> {},
           content_mask |-> binary_mask]

\* ------------------------------------------------------- bounds extraction

\* x / zoom with zoom = dpi / 72, x in MarginDen-ths of a pixel, in units
ToPage(x, dpi) == (x * PointsPerInch * (UnitsPerPoint \div MarginDen)) \div dpi

\* ExtractBounds without the test of line 324: an empty box for an empty mask
ExtractBoundsEmpty(content_mask, img, page, margin, dpi) ==
  LET rows == {q[1] : q \in content_mask}
      cols == {q[2] : q \in content_mask}
      margin_x == img.w * margin
      margin_y == img.h * margin
  IN IF rows = {} \/ cols = {} THEN CropBox(0, 0, 0, 0)
     ELSE CropBox(ToPage(Max(0, SetMin(cols) * MarginDen - margin_x), dpi),
                  ToPage(Max(0, SetMin(rows) * MarginDen - margin_y), dpi),
                  ToPage(Min(img.w * MarginDen, SetMax(cols) * MarginDen + margin_x), dpi),
                  ToPage(Min(img.h * MarginDen, SetMax(rows) * MarginDen + margin_y), dpi))

\* ExtractBounds with the far edges one past the last index
ExtractBoundsPast(content_mask, img, page, margin, dpi) ==
  LET rows == {q[1] : q \in content_mask}
      cols == {q[2] : q \in content_mask}
      margin_x == img.w * margin
      margin_y == img.h * margin
  IN IF rows = {} \/ cols = {} THEN page.rect
     ELSE CropBox(ToPage(Max(0, SetMin(cols) * MarginDen - margin_x), dpi),
                  ToPage(Max(0, SetMin(rows) * MarginDen - margin_y), dpi),
                  ToPage(Min(img.w * MarginDen, (SetMax(cols) + 1) * MarginDen + margin_x), dpi),
                  ToPage(Min(img.h * MarginDen, (SetMax(rows) + 1) * MarginDen + margin_y), dpi))

\* lines 321-357
ExtractBounds(content_mask, img, page, margin, dpi) ==
  LET rows == {q[1] : q \in content_mask}
      cols == {q[2] : q \in content_mask}
      margin_x == img.w * margin
      margin_y == img.h * margin
  IN IF rows = {} \/ cols = {} THEN page.rect
     ELSE CropBox(ToPage(Max(0, SetMin(cols) * MarginDen - margin_x), dpi),
                  ToPage(Max(0, SetMin(rows) * MarginDen - margin_y), dpi),
                  ToPage(Min(img.w * MarginDen, SetMax(cols) * MarginDen + margin_x), dpi),
                  ToPage(Min(img.h * MarginDen, SetMax(rows) * MarginDen + margin_y), dpi))

\* lines 347-357: the edges of the box that are numpy.float64 and not
\* Python floats.  x_indices[0] - margin_x is a numpy.float64; max(0, v) is v
\* only if v > 0 and min(img_width, v) is v only if v < img_width, or else
\* the int, whose quotient by zoom is a Python float.  The edges of the text
\* box and of the full page are Python floats.
NumpyEdges(content_mask, img, margin) ==
  LET rows == {q[1] : q \in content_mask}
      cols == {q[2] : q \in content_mask}
      margin_x == img.w * margin
      margin_y == img.h * margin
  IN IF rows = {} \/ cols = {} THEN {}
     ELSE (IF SetMin(cols) * MarginDen - margin_x > 0 THEN {"x0"} ELSE {})
          \cup (IF SetMin(rows) * MarginDen - margin_y > 0 THEN {"y0"} ELSE {})
          \cup (IF SetMax(cols) * MarginDen + margin_x < img.w * MarginDen
                THEN {"x1"} ELSE {})
          \cup (IF SetMax(rows) * MarginDen + margin_y < img.h * MarginDen
                THEN {"y1"} ELSE {})

\* --------------------------------------------------- detect_content_bounds
\* p: [threshold, margin, dpi, use_edge_detection, min_content_pixels,
\*     use_text_detection, min_char_size, max_char_size]; edge_threshold and
\* shadow_distance_ratio are parameters the body never reads.
\* otsu is the threshold the Otsu loop ends with, one of OtsuThresholds.
\* The result records what ran, in order, with the intermediate masks.

ImagePath(page, p, otsu, before) ==
  LET img == page.img
  IN IF p.use_edge_detection
     THEN LET binary_threshold == IF p.threshold = 0 THEN otsu ELSE p.threshold
              binary_mask == Binarize(img, binary_threshold)
              f == ContentFilter(binary_mask, img, p)
          IN [box |-> ExtractBounds(f.content_mask, img, page, p.margin, p.dpi),
              calls |-> before \o <<"get_page_as_image">>
                        \o (IF p.threshold = 0 THEN <<"otsu">> ELSE <<>>)
                        \o <<"binarize", "label">>
                        \o (IF f.num_features > 0 THEN <<"filter", "dilate">> ELSE <<>>)
                        \o <<"bounds">>,
              text |-> NoBox,
              binary_threshold |-> binary_threshold,
              binary_mask |-> binary_mask,
              kept |-> f.kept,
              content_mask |-> f.content_mask]
     ELSE LET content_mask == Binarize(img, p.threshold)
          IN [box |-> ExtractBounds(content_mask, img, page, p.margin, p.dpi),
              calls |-> before \o <<"get_page_as_image", "binarize", "bounds">>,
              text |-> NoBox,
              binary_threshold |-> p.threshold,
              binary_mask |-> content_mask,
              kept |-> {},
              content_mask |-> content_mask]

\* detect_content_bounds that renders the page whatever the text detector says
detect_content_bounds_image_always(page, p, otsu) ==
  ImagePath(page, p, otsu,
            IF p.use_text_detection THEN <<"detect_content_bounds_by_text">> ELSE <<>>)

detect_content_bounds(page, p, otsu) ==
  IF p.use_text_detection
  THEN LET result == detect_content_bounds_by_text(page, p.margin)
       IN IF result # NoBox
          THEN [box |-> result, calls |-> <<"detect_content_bounds_by_text">>,
                text |-> result, binary_threshold |-> 0, binary_mask |-> {},
                kept |-> {}, content_mask |-> {}]
          ELSE ImagePath(page, p, otsu, <<"detect_content_bounds_by_text">>)
  ELSE ImagePath(page, p, otsu, <<>>)

\* the thresholds the call can compute: the Otsu loop runs only on the
\* image path with use_edge_detection and threshold 0
OtsuChoices(page, p) ==
  IF /\ p.use_edge_detection
     /\ p.threshold = 0
     /\ (~p.use_text_detection \/ detect_content_bounds_by_text(page, p.margin) = NoBox)
  THEN OtsuThresholds(page.img)
  ELSE {0}

\* ------------------------------------------------------------- the pages
\* Inputs.  Points(n) is n PDF points in units.  ImageOf paints rectangles
\* [y, x, h, w, gray] over a white (255) page, later ones on top.

Points(n) == n * UnitsPerPoint

RectOf(x0, y0, x1, y1) == CropBox(Points(x0), Points(y0), Points(x1), Points(y1))

RECURSIVE GrayAt(_, _)
GrayAt(rects, pix) ==
  IF rects = <<>> THEN GrayMax
  ELSE LET r == rects[Len(rects)]
       IN IF /\ r.y <= pix[1] /\ pix[1] < r.y + r.h
             /\ r.x <= pix[2] /\ pix[2] < r.x + r.w
          THEN r.gray
          ELSE GrayAt(SubSeq(rects, 1, Len(rects) - 1), pix)

ImageOf(h, w, rects) ==
  [h |-> h, w |-> w, px |-> [pix \in (0 .. h - 1) \X (0 .. w - 1) |-> GrayAt(rects, pix)]]

Ink(y, x, h, w, gray) == [y |-> y, x |-> x, h |-> h, w |-> w, gray |-> gray]

SpanOf(x0, y0, x1, y1, text) ==
  [bbox |-> <<Points(x0), Points(y0), Points(x1), Points(y1)>>, text |-> text]

TextBlock(spans) == [lines |-> <<[spans |-> spans]>>]
ImageBlock == [image |-> TRUE]

\* the documents' pages, 12 x 12 points, rendered at 150 dpi to 25 x 25 pixels
PageTextA ==
  [rect |-> RectOf(0, 0, 12, 12),
   blocks |-> <<TextBlock(<<SpanOf(0, 0, 10, 10, <<"a">>)>>)>>,
   img |-> ImageOf(25, 25, <<Ink(2, 2, 18, 18, 0)>>)]

PageTextB ==
  [rect |-> RectOf(0, 0, 12, 12),
   blocks |-> <<ImageBlock,
                TextBlock(<<SpanOf(2, 2, 12, 12, <<"b", " ">>), SpanOf(0, 0, 1, 1, <<" ">>)>>)>>,
   img |-> ImageOf(25, 25, <<Ink(6, 6, 12, 12, 0)>>)]

\* no text but white space, and no ink
PageBlank ==
  [rect |-> RectOf(0, 0, 12, 12),
   blocks |-> <<TextBlock(<<SpanOf(1, 1, 3, 3, <<" ", "\n">>)>>)>>,
   img |-> ImageOf(25, 25, <<>>)]

\* a scan: a text block of ink, a binding shadow down the left edge, a speck
PageScan ==
  [rect |-> RectOf(0, 0, 12, 12),
   blocks |-> <<ImageBlock>>,
   img |-> ImageOf(25, 25, <<Ink(0, 0, 25, 2, 100), Ink(8, 8, 10, 9, 0), Ink(20, 21, 1, 1, 0)>>)]

\* a scan of one gray value
PageGray ==
  [rect |-> RectOf(0, 0, 12, 12),
   blocks |-> <<>>,
   img |-> ImageOf(25, 25, <<Ink(0, 0, 25, 25, 200)>>)]

PageCatalog == <<PageTextA, PageTextB, PageBlank, PageScan, PageGray>>

\* a scan of one horizontal rule, one pixel high
PageRule ==
  [rect |-> RectOf(0, 0, 12, 12),
   blocks |-> <<>>,
   img |-> ImageOf(25, 25, <<Ink(12, 5, 1, 10, 0)>>)]

\* a page twice as wide, 24 x 12 points, 50 x 25 pixels
PageWide ==
  [rect |-> RectOf(0, 0, 24, 12),
   blocks |-> <<TextBlock(<<SpanOf(2, 2, 22, 10, <<"w">>)>>)>>,
   img |-> ImageOf(25, 50, <<Ink(5, 5, 10, 40, 0)>>)]

\* a page whose only text lies left of the page, as text does that a crop of
\* the page has left outside its CropBox
PageOutside ==
  [rect |-> RectOf(0, 0, 12, 12),
   blocks |-> <<TextBlock(<<SpanOf(0 - 3, 2, 0 - 1, 5, <<"x">>)>>)>>,
   img |-> ImageOf(25, 25, <<>>)]

\* every page a document can be made of
AllPages == PageCatalog \o <<PageRule, PageWide, PageOutside>>

MaxPages == 2

Documents == UNION {[1 .. n -> 1 .. Len(PageCatalog)] : n \in 1 .. MaxPages}

\* ------------------------------------------------------------ PDFProcessor

DefaultDpi == 150
DefaultMinContentPixels == 50
DefaultMinCharSize == 8
DefaultMaxCharSize == 200

\* the arguments of analyze_all_pages; dpi and min_content_pixels are not
\* passed on (lines 391-398) and keep detect_content_bounds's defaults
AnalyzeArgs ==
  [threshold : {0, 250}, margin : {0, 1}, use_edge_detection : BOOLEAN,
   use_text_detection : BOOLEAN, min_char_size : {DefaultMinCharSize},
   max_char_size : {DefaultMaxCharSize}]

DetectParams(a) ==
  [threshold |-> a.threshold, margin |-> a.margin, dpi |-> DefaultDpi,
   use_edge_detection |-> a.use_edge_detection,
   min_content_pixels |-> DefaultMinContentPixels,
   use_text_detection |-> a.use_text_detection,
   min_char_size |-> a.min_char_size, max_char_size |-> a.max_char_size]

NoArgs == [none |-> TRUE]
NoDetection == [none |-> TRUE]
Nothing == [none |-> TRUE]

page_count == Len(doc)
PageAt(i) == AllPages[doc[i + 1]]

\* lines 400-409; content_ratio is kept as the fraction num / den, and numpy
\* names the edges of crop_box that are numpy.float64
PageInfo(i, page, crop_box, numpy) ==
  LET original_area == BoxWidth(page.rect) * BoxHeight(page.rect)
      content_area == BoxWidth(crop_box) * BoxHeight(crop_box)
  IN [page_number |-> i,
      original_size |-> <<BoxWidth(page.rect), BoxHeight(page.rect)>>,
      crop_box |-> crop_box,
      numpy |-> numpy,
      content_ratio |-> IF original_area > 0
                        THEN [num |-> content_area, den |-> original_area]
                        ELSE [num |-> 1, den |-> 1]]

\* get_uniform_crop_box with min and max exchanged
get_uniform_crop_box_swapped(infos) ==
  IF infos = <<>> THEN Nothing
  ELSE CropBox(SetMax({infos[k].crop_box.x0 : k \in 1 .. Len(infos)}),
               SetMax({infos[k].crop_box.y0 : k \in 1 .. Len(infos)}),
               SetMin({infos[k].crop_box.x1 : k \in 1 .. Len(infos)}),
               SetMin({infos[k].crop_box.y1 : k \in 1 .. Len(infos)}))

\* get_uniform_crop_box that returns the box of the first page
get_uniform_crop_box_first(infos) ==
  IF infos = <<>> THEN Nothing ELSE infos[1].crop_box

\* lines 424-433
get_uniform_crop_box(infos) ==
  IF infos = <<>> THEN Nothing
  ELSE CropBox(SetMin({infos[k].crop_box.x0 : k \in 1 .. Len(infos)}),
               SetMin({infos[k].crop_box.y0 : k \in 1 .. Len(infos)}),
               SetMax({infos[k].crop_box.x1 : k \in 1 .. Len(infos)}),
               SetMax({infos[k].crop_box.y1 : k \in 1 .. Len(infos)}))

\* The call in progress, or the last one: arg is Nothing for a call of
\* analyze_all_pages and the arguments of a call of crop_and_save or of
\* optimize_for_kindle, which run analyze_all_pages within them.
Caller == IF "call" \in DOMAIN arg THEN arg.call ELSE "analyze_all_pages"

\* lines 557-560 and 573-576: the wrappers optimize_for_kindle passes down
analyze_progress(current, total) == <<current, total * 2, "analyze">>

\* save_progress that passes current on as it is
save_progress_plain(current, total) == <<current, total * 2, "save">>

save_progress(current, total) == <<current + total, total * 2, "save">>

\* lines 412-413; crop_and_save passes no callback to line 454
AnalyzeReport(i) ==
  CASE Caller = "analyze_all_pages" -> << <<i + 1, page_count>> >>
    [] Caller = "crop_and_save" -> <<>>
    [] Caller = "optimize_for_kindle" -> <<analyze_progress(i + 1, page_count)>>

Init ==
  /\ doc \in Documents
  /\ cfg = NoArgs
  /\ page_infos = <<>>
  /\ pc = "idle"
  /\ idx = 0
  /\ det = NoDetection
  /\ output = <<>>
  /\ progress = <<>>
  /\ arg = Nothing
  /\ res = Nothing

\* analyze_all_pages without line 386: the list of an earlier call is kept
AnalyzeBeginWithKept(args) ==
  /\ pc = "idle"
  /\ \E a \in args : cfg' = a
  /\ pc' = "analyzing"
  /\ idx' = 0
  /\ det' = NoDetection
  /\ progress' = <<>>
  /\ res' = Nothing
  /\ arg' = Nothing
  /\ output' = <<>>
  /\ UNCHANGED <<doc, page_infos>>

\* analyze_all_pages is entered with arguments of the set args: line 386
AnalyzeBeginWith(args) ==
  /\ pc = "idle"
  /\ \E a \in args : cfg' = a
  /\ page_infos' = <<>>
  /\ pc' = "analyzing"
  /\ idx' = 0
  /\ det' = NoDetection
  /\ progress' = <<>>
  /\ res' = Nothing
  /\ arg' = Nothing
  /\ output' = <<>>
  /\ UNCHANGED doc

AnalyzeBegin == AnalyzeBeginWith(AnalyzeArgs)

\* one turn of the loop of lines 388-413
AnalyzePage ==
  /\ pc = "analyzing"
  /\ idx < page_count
  /\ \E otsu \in OtsuChoices(PageAt(idx), DetectParams(cfg)) :
       LET d == detect_content_bounds(PageAt(idx), DetectParams(cfg), otsu)
       IN /\ det' = d
          /\ page_infos' = Append(page_infos,
                 PageInfo(idx, PageAt(idx), d.box,
                          NumpyEdges(d.content_mask, PageAt(idx).img, cfg.margin)))
  /\ progress' = progress \o AnalyzeReport(idx)
  /\ idx' = idx + 1
  /\ UNCHANGED <<doc, cfg, pc, output, arg, res>>

\* line 415: back to the caller, who is at line 457 within crop_and_save
\* (a document has a page, so after lines 562-571 the test of line 453 fails)
AnalyzeReturn ==
  /\ pc = "analyzing"
  /\ idx = page_count
  /\ IF Caller = "analyze_all_pages"
     THEN pc' = "idle" /\ idx' = idx
     ELSE pc' = "cropping" /\ idx' = 0
  /\ UNCHANGED <<doc, cfg, page_infos, det, output, progress, arg, res>>

\* close (lines 63-66), also at the end of a `with` block (lines 59-60):
\* the document is closed, the attributes of the processor are as they were
Close ==
  /\ pc = "idle"
  /\ pc' = "closed"
  /\ UNCHANGED <<doc, cfg, page_infos, idx, det, output, progress, arg, res>>

\* a call that reads the closed document raises ValueError: page_count at
\* line 71, detect_content_bounds at line 195 (109 on the text path),
\* crop_and_save at line 454 (through analyze_all_pages) or 463.
\* analyze_all_pages, and with it optimize_for_kindle, has emptied
\* page_infos (line 386) before line 388 raises.
ClosedCall ==
  /\ pc = "closed"
  /\ \E call \in {"page_count", "detect_content_bounds", "crop_and_save",
                  "analyze_all_pages", "optimize_for_kindle"} :
       /\ res' = [raised |-> "ValueError", call |-> call]
       /\ page_infos' = IF call \in {"analyze_all_pages", "optimize_for_kindle"}
                        THEN <<>> ELSE page_infos
  /\ UNCHANGED <<doc, cfg, pc, idx, det, output, progress, arg>>

\* a call of get_uniform_crop_box, which reads page_infos only
UniformBox ==
  /\ pc \in {"idle", "closed"}
  /\ res' = [uniform_box |-> get_uniform_crop_box(page_infos)]
  /\ UNCHANGED <<doc, cfg, page_infos, pc, idx, det, output, progress, arg>>

Next ==
  \/ AnalyzeBegin \/ AnalyzePage \/ AnalyzeReturn \/ UniformBox
  \/ Close \/ ClosedCall

Spec == Init /\ [][Next]_vars

\* ------------------------------------------ crop_and_save, KindleOptimizer
\* Sizes of output pages and scale factors are fractions num / den in
\* lowest terms, as the floats hold them up to rounding; 1 / 0 is inf and
\* 0 / 0 is nan, which numpy's division by zero and inf * 0 give.

Frac(n, d) ==
  LET g == Gcd(Abs(n), Abs(d))
      s == IF d < 0 THEN 0 - 1 ELSE 1
  IN IF g = 0 THEN [num |-> n, den |-> d]
     ELSE [num |-> s * (n \div g), den |-> s * (d \div g)]

\* a <= b on floats: false when either is nan; the denominators are >= 0
FracLeq(a, b) ==
  IF (a.num = 0 /\ a.den = 0) \/ (b.num = 0 /\ b.den = 0) THEN FALSE
  ELSE IF a.den = 0 /\ b.den = 0 THEN a.num <= b.num
  ELSE a.num * b.den <= b.num * a.den

\* min(a, b): b if b < a, or else a, which it is also when either is nan
FracMin(a, b) ==
  IF FracLeq(a, b) \/ (a.num = 0 /\ a.den = 0) \/ (b.num = 0 /\ b.den = 0)
  THEN a ELSE b
FracMul(a, b) == Frac(a.num * b.num, a.den * b.den)

\* a length in units as a number of points
InPoints(n) == Frac(n, UnitsPerPoint)

\* lines 508-513, sizes in points
KINDLE_PROFILES ==
  [paperwhite |-> [width |-> 1236, height |-> 1648],
   oasis |-> [width |-> 1264, height |-> 1680],
   basic |-> [width |-> 1072, height |-> 1448],
   scribe |-> [width |-> 1860, height |-> 2480]]

\* the lookup that falls back to 'basic'
ProfileOfBasic(device) ==
  IF device \in DOMAIN KINDLE_PROFILES
  THEN KINDLE_PROFILES[device]
  ELSE KINDLE_PROFILES["basic"]

\* line 555: dict.get with the default
ProfileOf(device) ==
  IF device \in DOMAIN KINDLE_PROFILES
  THEN KINDLE_PROFILES[device]
  ELSE KINDLE_PROFILES["paperwhite"]

\* line 474: None and 0 are both false
HasTarget(target) == target.width # 0 /\ target.height # 0

\* lines 476-478, for a crop of non-zero width and height (in units)
ScaleOf(new_width, new_height, target) ==
  LET scale_w == Frac(target.width * UnitsPerPoint, new_width)
      scale_h == Frac(target.height * UnitsPerPoint, new_height)
  IN FracMin(scale_w, scale_h)

\* lines 469-494: the page added to output_doc for source page i
OutputPage(i, crop_box, target) ==
  LET new_width == BoxWidth(crop_box)
      new_height == BoxHeight(crop_box)
      scale == ScaleOf(new_width, new_height, target)
  IN IF HasTarget(target)
     THEN [src |-> i, clip |-> crop_box, scale |-> scale,
           width |-> FracMul(InPoints(new_width), scale),
           height |-> FracMul(InPoints(new_height), scale)]
     ELSE [src |-> i, clip |-> crop_box, scale |-> Frac(1, 1),
           width |-> InPoints(new_width), height |-> InPoints(new_height)]

\* min and max return the first of equal values: the page whose edge is the
\* uniform box's edge, lines 428-433
FirstWith(infos, edge, value) ==
  infos[SetMin({k \in 1 .. Len(infos) : infos[k].crop_box[edge] = value})]

UniformNumpy(infos) ==
  LET box == get_uniform_crop_box(infos)
  IN {edge \in {"x0", "y0", "x1", "y1"} :
        edge \in FirstWith(infos, edge, box[edge]).numpy}

\* the numpy edges of the crop of lines 460 and 466
NumpyOf(infos, uniform_crop, i) ==
  IF uniform_crop THEN UniformNumpy(infos) ELSE infos[i + 1].numpy

\* lines 476-477 divide by the crop's width and height: a Python float that
\* is zero raises ZeroDivisionError, a numpy.float64 that is zero gives inf.
\* A difference is a numpy.float64 if one of its operands is.
DividesByZero(crop_box, numpy, target) ==
  /\ HasTarget(target)
  /\ \/ BoxWidth(crop_box) = 0 /\ numpy \cap {"x0", "x1"} = {}
     \/ BoxHeight(crop_box) = 0 /\ numpy \cap {"y0", "y1"} = {}

\* lines 483-494 hand the sizes and the clip to PyMuPDF, which is free to
\* refuse a clip that shows nothing of the source page
ShowsNothing(crop_box, rect) ==
  \/ Min(crop_box.x1, rect.x1) <= Max(crop_box.x0, rect.x0)
  \/ Min(crop_box.y1, rect.y1) <= Max(crop_box.y0, rect.y0)

LibraryOutcomes(crop_box, rect) ==
  IF ShowsNothing(crop_box, rect) THEN {"page", "error"} ELSE {"page"}

\* the crop that is the page's own box whatever uniform_crop says
CropOfOwn(infos, uniform_crop, i) == infos[i + 1].crop_box

\* lines 460 and 466
CropOf(infos, uniform_crop, i) ==
  IF uniform_crop THEN get_uniform_crop_box(infos) ELSE infos[i + 1].crop_box

\* the arguments of analyze_all_pages at line 454: its defaults
DefaultArgs ==
  [threshold |-> 250, margin |-> 1, use_edge_detection |-> TRUE,
   use_text_detection |-> TRUE, min_char_size |-> DefaultMinCharSize,
   max_char_size |-> DefaultMaxCharSize]

\* target_width and target_height of a call of crop_and_save, 0 for None
CropTargets ==
  {[width |-> 0, height |-> 0], [width |-> 1000, height |-> 0],
   [width |-> 1000, height |-> 1500]}


Devices == DOMAIN KINDLE_PROFILES \cup {"kobo"}

\* the detection arguments of the calls of optimize_for_kindle and of
\* detect_content_bounds: the defaults, a plain threshold without margin,
\* the defaults without margin
RunArgs ==
  {DefaultArgs,
   [DefaultArgs EXCEPT !.margin = 0, !.use_edge_detection = FALSE,
                       !.use_text_detection = FALSE],
   [DefaultArgs EXCEPT !.margin = 0]}

\* a call of analyze_all_pages in the whole runs
AnalyzeRun == AnalyzeBeginWith(RunArgs)

\* the documents of the whole runs
RunDocuments == {<<6>>, <<8>>, <<8, 4>>, <<1, 6>>, <<2, 3, 1>>, <<1, 3, 7>>}

InitRun ==
  /\ doc \in RunDocuments
  /\ cfg = NoArgs
  /\ page_infos = <<>>
  /\ pc = "idle"
  /\ idx = 0
  /\ det = NoDetection
  /\ output = <<>>
  /\ progress = <<>>
  /\ arg = Nothing
  /\ res = Nothing

\* an exception leaves analyze_all_pages between two pages (a callback that
\* raises, an interrupt, a page that cannot be read): nothing catches it and
\* nothing is undone
AnalyzeAbort ==
  /\ pc = "analyzing"
  /\ pc' = "idle"
  /\ res' = [raised |-> "analyze_all_pages"]
  /\ UNCHANGED <<doc, cfg, page_infos, idx, det, output, progress, arg>>

\* crop_and_save is entered: lines 453-460
CropBegin ==
  /\ pc = "idle"
  /\ \E uniform_crop \in BOOLEAN, target \in CropTargets :
       arg' = [call |-> "crop_and_save", uniform_crop |-> uniform_crop,
               target |-> target]
  /\ IF page_infos = <<>>
     THEN pc' = "analyzing" /\ cfg' = DefaultArgs
     ELSE pc' = "cropping" /\ cfg' = cfg
  /\ idx' = 0
  /\ det' = NoDetection
  /\ output' = <<>>
  /\ progress' = <<>>
  /\ res' = Nothing
  /\ UNCHANGED <<doc, page_infos>>

\* lines 496-497
SaveReport(i) ==
  IF Caller = "optimize_for_kindle"
  THEN save_progress(i + 1, Len(page_infos))
  ELSE <<i + 1, Len(page_infos)>>

\* one turn of the loop of lines 462-497
CropPage ==
  /\ pc = "cropping"
  /\ idx < Len(page_infos)
  /\ LET crop_box == CropOf(page_infos, arg.uniform_crop, idx)
         numpy == NumpyOf(page_infos, arg.uniform_crop, idx)
     IN IF DividesByZero(crop_box, numpy, arg.target)
        THEN /\ pc' = "idle"
             /\ res' = [raised |-> "ZeroDivisionError"]
             /\ UNCHANGED <<output, progress, idx>>
        ELSE \E outcome \in LibraryOutcomes(crop_box, PageAt(idx).rect) :
               IF outcome = "error"
               THEN /\ pc' = "idle"
                    /\ res' = [raised |-> "fitz"]
                    /\ UNCHANGED <<output, progress, idx>>
               ELSE /\ output' = Append(output, OutputPage(idx, crop_box, arg.target))
                    /\ progress' = Append(progress, SaveReport(idx))
                    /\ idx' = idx + 1
                    /\ UNCHANGED <<pc, res>>
  /\ UNCHANGED <<doc, cfg, page_infos, det, arg>>

\* lines 500-501: the document is saved and crop_and_save returns
CropReturn ==
  /\ pc = "cropping"
  /\ idx = Len(page_infos)
  /\ pc' = "idle"
  /\ res' = [saved |-> TRUE]
  /\ UNCHANGED <<doc, cfg, page_infos, idx, det, output, progress, arg>>

\* optimize_for_kindle is entered: lines 555-571, up to line 386
OptimizeBegin ==
  /\ pc = "idle"
  /\ \E device \in Devices, uniform_crop \in BOOLEAN :
       arg' = [call |-> "optimize_for_kindle", device |-> device,
               uniform_crop |-> uniform_crop, target |-> ProfileOf(device)]
  /\ \E a \in RunArgs : cfg' = a
  /\ page_infos' = <<>>
  /\ pc' = "analyzing"
  /\ idx' = 0
  /\ det' = NoDetection
  /\ output' = <<>>
  /\ progress' = <<>>
  /\ res' = Nothing
  /\ UNCHANGED doc

\* a call of detect_content_bounds that stores its result in page_infos
DetectStores ==
  /\ pc = "idle"
  /\ res = Nothing
  /\ \E i \in 0 .. page_count - 1, a \in RunArgs :
       \E otsu \in OtsuChoices(PageAt(i), DetectParams(a)) :
         LET d == detect_content_bounds(PageAt(i), DetectParams(a), otsu)
         IN /\ det' = d
            /\ res' = [detected |-> i, params |-> DetectParams(a), otsu |-> otsu]
            /\ page_infos' = Append(page_infos, PageInfo(i, PageAt(i), d.box, {}))
  /\ arg' = Nothing
  /\ output' = <<>>
  /\ progress' = <<>>
  /\ UNCHANGED <<doc, cfg, pc, idx>>

\* a call of detect_content_bounds from outside, lines 151-357: it assigns
\* to no attribute of the processor.  arg, res, output and progress describe
\* the call, the processor is doc, page_infos (and cfg, idx as they were left).
\* The calls are bounded to the states in which no call has left a result.
Detect ==
  /\ pc = "idle"
  /\ res = Nothing
  /\ \E i \in 0 .. page_count - 1, a \in RunArgs :
       \E otsu \in OtsuChoices(PageAt(i), DetectParams(a)) :
         /\ det' = detect_content_bounds(PageAt(i), DetectParams(a), otsu)
         /\ res' = [detected |-> i, params |-> DetectParams(a), otsu |-> otsu]
  /\ arg' = Nothing
  /\ output' = <<>>
  /\ progress' = <<>>
  /\ UNCHANGED <<doc, cfg, page_infos, pc, idx>>

NextRun ==
  \/ AnalyzeRun \/ AnalyzePage \/ AnalyzeReturn \/ AnalyzeAbort
  \/ UniformBox \/ Detect
  \/ CropBegin \/ CropPage \/ CropReturn
  \/ OptimizeBegin
  \/ Close \/ ClosedCall

SpecRun == InitRun /\ [][NextRun]_vars

\* ------------------------------------------------- the parts on their own
\* Specifications that apply one part of detect_content_bounds to inputs
\* drawn from bounded sets.  arg is the input, res the result.

Idle ==
  /\ doc = <<>>
  /\ cfg = NoArgs
  /\ page_infos = <<>>
  /\ idx = 0
  /\ det = NoDetection
  /\ output = <<>>
  /\ progress = <<>>

IdleVars == <<doc, cfg, page_infos, idx, det, output, progress>>

\* --- the Otsu branch and the binarisation: images of one row

MaxPixels == 3

OtsuGrays == {0, 1, 100, 127, 128, 200, 254, 255}

RowImage(values) ==
  [h |-> 1, w |-> Len(values),
   px |-> [pix \in {0} \X (0 .. Len(values) - 1) |-> values[pix[2] + 1]]]

\* one image for each histogram: the values in ascending order
OtsuInputs ==
  {values \in UNION {[1 .. n -> OtsuGrays] : n \in 1 .. MaxPixels} :
     \A k \in 1 .. Len(values) - 1 : values[k] <= values[k + 1]}

InitOtsu ==
  /\ Idle
  /\ pc = "otsu"
  /\ \E values \in OtsuInputs : arg = [values |-> values, img |-> RowImage(values)]
  /\ res = Nothing

\* lines 207-240 with threshold == 0
OtsuBinarize ==
  /\ pc = "otsu"
  /\ \E otsu \in OtsuThresholds(arg.img) :
       res' = [binary_threshold |-> otsu, binary_mask |-> Binarize(arg.img, otsu)]
  /\ pc' = "binarized"
  /\ UNCHANGED <<IdleVars, arg>>

NextOtsu == OtsuBinarize

SpecOtsu == InitOtsu /\ [][NextOtsu]_vars

\* --- the text path: pages of spans

MaxSpans == 2

SpanBoxes ==
  {<<2, 3, 8, 9>>, <<0, 0, 12, 12>>, <<5, 5, 6, 6>>,
   <<0 - 2, 0 - 1, 4, 4>>, <<10, 10, 14, 15>>, <<13, 2, 15, 5>>}

SpanTexts == {<<"a">>, <<" ">>, <<"\r", "a", "\t">>, <<"U+3000", "\f">>}

TextSpans == {SpanOf(b[1], b[2], b[3], b[4], t) : b \in SpanBoxes, t \in SpanTexts}

\* an image block, then a text block with one line for each span
TextPage(spans) ==
  [rect |-> RectOf(0, 0, 12, 12),
   blocks |-> <<ImageBlock, [lines |-> [k \in 1 .. Len(spans) |-> [spans |-> <<spans[k]>>]]]>>,
   img |-> ImageOf(1, 1, <<>>)]

TextMargins == {0, 1, 5, 0 - 5}

InitText ==
  /\ Idle
  /\ pc = "text"
  /\ \E spans \in UNION {[1 .. n -> TextSpans] : n \in 0 .. MaxSpans}, m \in TextMargins :
       arg = [spans |-> spans, page |-> TextPage(spans), margin |-> m]
  /\ res = Nothing

TextBounds ==
  /\ pc = "text"
  /\ res' = [box |-> detect_content_bounds_by_text(arg.page, arg.margin)]
  /\ pc' = "text_done"
  /\ UNCHANGED <<IdleVars, arg>>

NextText == TextBounds

SpecText == InitText /\ [][NextText]_vars

\* --- the component filter: scenes of ink on small images

MaxInks == 2

\* [h, w, dpi, inks]: the image size, the resolution and the ink to pick from
FilterScenes ==
  << [h |-> 10, w |-> 10, dpi |-> 30,
      inks |-> <<Ink(3, 0, 4, 1, 0), Ink(3, 5, 4, 1, 0), Ink(4, 3, 3, 3, 0),
                 Ink(8, 7, 1, 1, 0), Ink(9, 2, 1, 6, 0), Ink(7, 6, 1, 1, 0)>>],
     [h |-> 5, w |-> 40, dpi |-> 30,
      inks |-> <<Ink(2, 2, 1, 30, 0), Ink(2, 2, 1, 29, 0), Ink(1, 0, 2, 1, 0),
                 Ink(1, 20, 2, 1, 0), Ink(0, 34, 2, 2, 0), Ink(0, 37, 1, 3, 0)>>],
     [h |-> 10, w |-> 10, dpi |-> 150,
      inks |-> <<Ink(3, 0, 4, 1, 0), Ink(3, 5, 4, 1, 0), Ink(2, 4, 2, 2, 0)>>],
     [h |-> 20, w |-> 15, dpi |-> 15,
      inks |-> <<Ink(6, 0, 8, 2, 0), Ink(6, 7, 8, 2, 0), Ink(5, 9, 1, 1, 0),
                 Ink(1, 3, 2, 2, 0), Ink(19, 5, 1, 5, 0)>>] >>

FilterParams ==
  [min_char_size : {5, 10}, max_char_size : {10, 200}, min_content_pixels : {1, 5}]

Choices(inks) ==
  {c \in SUBSET (1 .. Len(inks)) : Cardinality(c) <= MaxInks}

RECURSIVE Chosen(_, _, _)
Chosen(inks, c, k) ==
  IF k > Len(inks) THEN <<>>
  ELSE (IF k \in c THEN <<inks[k]>> ELSE <<>>) \o Chosen(inks, c, k + 1)

InitFilter ==
  /\ Idle
  /\ pc = "filter"
  /\ \E s \in 1 .. Len(FilterScenes), f \in FilterParams :
       \E c \in Choices(FilterScenes[s].inks) :
         arg = [img |-> ImageOf(FilterScenes[s].h, FilterScenes[s].w,
                                Chosen(FilterScenes[s].inks, c, 1)),
                p |-> [threshold |-> 128, margin |-> 0,
                       dpi |-> FilterScenes[s].dpi, use_edge_detection |-> TRUE,
                       min_content_pixels |-> f.min_content_pixels,
                       use_text_detection |-> FALSE,
                       min_char_size |-> f.min_char_size,
                       max_char_size |-> f.max_char_size]]
  /\ res = Nothing

\* lines 240-315 on the binarised image
Filter ==
  /\ pc = "filter"
  /\ LET binary_mask == Binarize(arg.img, arg.p.threshold)
     IN res' = [binary_mask |-> binary_mask,
                first |-> ContentFilter(binary_mask, arg.img, arg.p)]
  /\ pc' = "filtered"
  /\ UNCHANGED <<IdleVars, arg>>

\* the same filter, same parameters, on its own output, and on the union of
\* the components it kept
Refilter ==
  /\ pc = "filtered"
  /\ res' = [binary_mask |-> res.binary_mask, first |-> res.first,
             second |-> ContentFilter(res.first.content_mask, arg.img, arg.p),
             reselected |-> ContentFilter(res.first.kept, arg.img, arg.p)]
  /\ pc' = "refiltered"
  /\ UNCHANGED <<IdleVars, arg>>

NextFilter == Filter \/ Refilter

SpecFilter == InitFilter /\ [][NextFilter]_vars

\* =================================================================== claims

\* the page and the parameters of the detection held in det
DetPage == PageAt(idx - 1)
DetParams == DetectParams(cfg)
Ran(name) == \E k \in 1 .. Len(det.calls) : det.calls[k] = name
Detected == det # NoDetection
ImagePathRan == Detected /\ Ran("get_page_as_image")

\* C1: with use_text_detection the text detector is called first; when it
\* returns a box, that box is the result and nothing of the image path
\* (render, binarise, filter, bounds extraction) runs; the image path runs
\* exactly when text detection is disabled or returned None.
C1_TextFirst ==
  Detected =>
    LET text == detect_content_bounds_by_text(DetPage, DetParams.margin)
    IN /\ DetParams.use_text_detection <=> Ran("detect_content_bounds_by_text")
       /\ DetParams.use_text_detection => det.calls[1] = "detect_content_bounds_by_text"
       /\ (DetParams.use_text_detection /\ text # NoBox) =>
            /\ det.box = text
            /\ det.calls = <<"detect_content_bounds_by_text">>
       /\ Ran("get_page_as_image") <=> (~DetParams.use_text_detection \/ text = NoBox)
       /\ \A name \in {"otsu", "binarize", "label", "filter", "dilate", "bounds"} :
            Ran(name) => Ran("get_page_as_image")

\* a page with text analysed with text detection: the text box is the result
\* and the page was not rendered
C1_Witness ==
  /\ Detected
  /\ cfg.use_text_detection
  /\ det.text # NoBox
  /\ det.box = det.text
  /\ ~Ran("get_page_as_image")

\* the spans of a page, and those whose stripped text is not empty
SpansOf(page) ==
  {page.blocks[b].lines[l].spans[k] :
     <<b, l, k>> \in
       {t \in (1 .. Len(page.blocks)) \X (1 .. MaxSpans + 1) \X (1 .. MaxSpans + 1) :
          /\ "lines" \in DOMAIN page.blocks[t[1]]
          /\ t[2] <= Len(page.blocks[t[1]].lines)
          /\ t[3] <= Len(page.blocks[t[1]].lines[t[2]].spans)}}

InkSpans(page) == {sp \in SpansOf(page) : \E k \in 1 .. Len(sp.text) : sp.text[k] \notin Whitespace}

Inside(inner, outer) ==
  /\ outer.x0 <= inner.x0 /\ inner.x0 <= inner.x1 /\ inner.x1 <= outer.x1
  /\ outer.y0 <= inner.y0 /\ inner.y0 <= inner.y1 /\ inner.y1 <= outer.y1

SpanBox(sp) == CropBox(sp.bbox[1], sp.bbox[2], sp.bbox[3], sp.bbox[4])

TextDone == pc = "text_done"

\* C2 as stated: on a page with a non-whitespace span the result contains
\* the bounding rectangle of every such span and lies within the page
\* rectangle, for every span position and every margin fraction.
C2_ContainsEverySpan ==
  (TextDone /\ InkSpans(arg.page) # {}) =>
    /\ res.box # NoBox
    /\ Inside(res.box, arg.page.rect)
    /\ \A sp \in InkSpans(arg.page) : Inside(SpanBox(sp), res.box)

\* C2: on a page with a non-whitespace span and with a margin fraction that
\* is not negative, the result lies within the page rectangle and contains of
\* every such span the margin-expanded rectangle cut to the page; it contains
\* the whole rectangle of a span exactly when the span lies inside the page.
C2_ContainsSpansCutToPage ==
  (TextDone /\ InkSpans(arg.page) # {} /\ arg.margin >= 0) =>
    LET rect == arg.page.rect
        margin_x == (BoxWidth(rect) * arg.margin) \div MarginDen
        margin_y == (BoxHeight(rect) * arg.margin) \div MarginDen
    IN /\ res.box # NoBox
       /\ Inside(res.box, rect)
       /\ \A sp \in InkSpans(arg.page) :
            /\ res.box.x0 <= Max(rect.x0, sp.bbox[1] - margin_x)
            /\ res.box.y0 <= Max(rect.y0, sp.bbox[2] - margin_y)
            /\ res.box.x1 >= Min(rect.x1, sp.bbox[3] + margin_x)
            /\ res.box.y1 >= Min(rect.y1, sp.bbox[4] + margin_y)
            /\ Inside(SpanBox(sp), res.box) <=> Inside(SpanBox(sp), rect)

\* two spans with text, one inside the page and one reaching over its edge,
\* and a positive margin: the result is cut at the page edge
C2_Witness ==
  /\ TextDone
  /\ arg.margin > 0
  /\ \E sp \in InkSpans(arg.page) : Inside(SpanBox(sp), arg.page.rect)
  /\ \E sp \in InkSpans(arg.page) : ~Inside(SpanBox(sp), arg.page.rect)
  /\ res.box # NoBox
  /\ res.box # arg.page.rect

\* the direct definition: the classes of candidate t and their variance
RECURSIVE SumGray(_, _)
SumGray(img, S) ==
  IF S = {} THEN 0
  ELSE LET q == CHOOSE q \in S : TRUE IN img.px[q] + SumGray(img, S \ {q})

DirectVariance(img, t) ==
  LET bg == {q \in Pixels(img) : img.px[q] <= t}
      fg == Pixels(img) \ bg
  IN Variance(Cardinality(bg), Cardinality(fg), SumGray(img, bg), SumGray(img, fg))

\* the candidates in T whose variance no candidate in T exceeds
Maximisers(img, T) ==
  LET values == {DirectVariance(img, t) : t \in T}
      best == {v \in values : \A u \in values : ~VarianceGreater(u, v)}
  IN {t \in T : DirectVariance(img, t) \in best}

\* the candidates with both classes non-empty
Splits(img) ==
  {t \in 0 .. GrayMax : \E q, r \in Pixels(img) : img.px[q] <= t /\ t < img.px[r]}

\* the maximising splits of the direct definition
OtsuBest(img) == Maximisers(img, Splits(img))

\* the equal maxima in best are one split, or are all computed without rounding
RoundingFree(img, best) ==
  \A v, m \in {DirectVariance(img, t) : t \in best} :
    SameOperands(v, m) \/ (ExactInDouble(v) /\ ExactInDouble(m))

Binarized == pc = "binarized"

\* C3 as stated: for every histogram, one-valued images included, the Otsu
\* threshold is the lowest t in 0..255 that maximises
\* weight_bg * weight_fg * (mean_bg - mean_fg)^2.
C3_LowestMaximiser ==
  Binarized => res.binary_threshold = SetMin(Maximisers(arg.img, 0 .. GrayMax))

\* C3: for an image of one gray value the Otsu branch ends, without an
\* error, with the default 128; for an image of two or more gray values it
\* ends with a t that maximises the between-class variance, the lowest such
\* t whenever the equal maxima are computed without rounding.
C3_OtsuMaximiser ==
  Binarized =>
    LET best == OtsuBest(arg.img)
    IN IF best = {}
       THEN res.binary_threshold = OtsuDefault
       ELSE /\ res.binary_threshold \in best
            /\ RoundingFree(arg.img, best) => res.binary_threshold = SetMin(best)

\* three gray values whose two splits have the same variance: the lower
\* split is the threshold
C3_Witness ==
  /\ Binarized
  /\ Len(arg.values) = 3
  /\ arg.values[1] < arg.values[2] /\ arg.values[2] < arg.values[3]
  /\ VarianceEqual(DirectVariance(arg.img, arg.values[1]),
                   DirectVariance(arg.img, arg.values[2]))
  /\ res.binary_threshold = arg.values[1]

\* C4 as stated: on the image path threshold 0 means the Otsu threshold, with
\* the component filter and in plain-threshold mode alike: the binary mask is
\* gray < Otsu threshold; a non-zero threshold gives gray < threshold.
C4_ZeroMeansOtsu ==
  ImagePathRan =>
    IF DetParams.threshold = 0
    THEN \E otsu \in OtsuThresholds(DetPage.img) :
           det.binary_mask = {q \in Pixels(DetPage.img) : DetPage.img.px[q] < otsu}
    ELSE det.binary_mask =
           {q \in Pixels(DetPage.img) : DetPage.img.px[q] < DetParams.threshold}

\* the component filter applied: its components, and the one-pixel-exact
\* tests of a component c of the first application
Filtered == pc \in {"filtered", "refiltered"}
Refiltered == pc = "refiltered"

Components == {res.first.components[k] : k \in 1 .. Len(res.first.components)}

Retained(c) == c.pixels \subseteq res.first.kept
Dropped(c) == c.pixels \cap res.first.kept = {}

EdgeZone == (5 * arg.p.dpi) \div 150
FortyPercent(c) == 10 * (c.y_end - c.y_start) = 4 * arg.img.h
AtLeftEdge(c) == c.x_start <= EdgeZone

\* farther than the edge zone from every edge of the image
Clear(c) ==
  /\ c.x_start > EdgeZone /\ c.x_end < arg.img.w - EdgeZone
  /\ c.y_start > EdgeZone /\ c.y_end < arg.img.h - EdgeZone

\* the bounding box covers the centre of the image
InCentre(c) ==
  /\ c.x_start <= arg.img.w \div 2 /\ arg.img.w \div 2 < c.x_end
  /\ c.y_start <= arg.img.h \div 2 /\ arg.img.h \div 2 < c.y_end

SameShape(c, d) ==
  /\ c.y_end - c.y_start = d.y_end - d.y_start
  /\ c.x_end - c.x_start = d.x_end - d.x_start
  /\ c.component_size = d.component_size

MinSize == (arg.p.min_char_size * arg.p.dpi) \div 150
MaxSize == (arg.p.max_char_size * arg.p.dpi) \div 150

SizeInBounds(c) ==
  LET height == c.y_end - c.y_start
      width == c.x_end - c.x_start
  IN /\ MinSize <= height /\ height <= 3 * MaxSize
     /\ MinSize <= width /\ width <= MaxSize
     /\ c.component_size >= arg.p.min_content_pixels

\* max(height, width) / max(min(height, width), 1) against 30
AspectBelow30(c) ==
  LET height == c.y_end - c.y_start
      width == c.x_end - c.x_start
      long == IF height >= width THEN height ELSE width
      short == IF height >= width THEN width ELSE height
  IN long < 30 * (IF short >= 1 THEN short ELSE 1)

AspectIs30(c) ==
  LET height == c.y_end - c.y_start
      width == c.x_end - c.x_start
      long == IF height >= width THEN height ELSE width
      short == IF height >= width THEN width ELSE height
  IN long = 30 * (IF short >= 1 THEN short ELSE 1)

\* C5 as stated: the filter (label, shadow/size/aspect, union, dilation) is
\* idempotent: applied to its own output it yields the same mask.
C5_Idempotent ==
  Refiltered => res.second.content_mask = res.first.content_mask

\* C5: the filter applied to its own output yields the same mask exactly
\* when that output is empty, because the dilation grows every other output;
\* the selection before the dilation (label, shadow/size/aspect, union) is
\* idempotent: applied to the union of the components it kept it keeps that
\* union.
C5_SelectionIdempotent ==
  Refiltered =>
    /\ res.second.content_mask = res.first.content_mask <=> res.first.content_mask = {}
    /\ res.reselected.kept = res.first.kept

\* a kept component whose dilated output is kept again and dilated again
C5_Witness ==
  /\ Refiltered
  /\ res.first.kept # {}
  /\ res.second.kept = res.first.content_mask
  /\ res.first.content_mask \subseteq res.second.content_mask
  /\ res.second.content_mask # res.first.content_mask
  /\ res.reselected.kept = res.first.kept

\* C6 as stated: for every image size a component at the left edge whose
\* height is 40% of the image height contributes no pixel to the content
\* mask, and a component of the same shape in the page centre is retained.
C6_CentreRetained ==
  Filtered =>
    \A c, d \in Components :
      (c # d /\ SameShape(c, d) /\ FortyPercent(c) /\ AtLeftEdge(c) /\ InCentre(d)) =>
        Dropped(c) /\ Retained(d)

\* within the edge zone of the left or right edge, of the top or bottom edge
AtSideEdge(c) == c.x_start <= EdgeZone \/ c.x_end >= arg.img.w - EdgeZone
AtTopOrBottomEdge(c) == c.y_start <= EdgeZone \/ c.y_end >= arg.img.h - EdgeZone

\* wider than 30% of the image width
Wide(c) == 10 * (c.x_end - c.x_start) > 3 * arg.img.w

\* C6: a component at the left edge (x_start <= int(5*dpi/150)) whose height
\* is 40% of the image height contributes no pixel to the content mask, for
\* every image size; a component of that height, wherever it is, is retained
\* exactly when it is outside the edge zones of the left and right edges,
\* it is not both within the edge zone of the top or bottom edge and wider
\* than 30% of the image width, it is within the size bounds and its aspect
\* is below 30; otherwise it contributes no pixel.
C6_ShadowRejected ==
  Filtered =>
    \A c \in Components :
      FortyPercent(c) =>
        /\ AtLeftEdge(c) => Dropped(c)
        /\ Retained(c) <=> /\ ~AtSideEdge(c)
                           /\ ~(AtTopOrBottomEdge(c) /\ Wide(c))
                           /\ SizeInBounds(c)
                           /\ AspectBelow30(c)
        /\ Retained(c) \/ Dropped(c)

\* the same shape twice, at the left edge and in the centre: the first is
\* dropped and the second retained
C6_Witness ==
  /\ Filtered
  /\ \E c, d \in Components :
       /\ c # d /\ SameShape(c, d) /\ FortyPercent(c)
       /\ AtLeftEdge(c) /\ Dropped(c)
       /\ InCentre(d) /\ Clear(d) /\ Retained(d)

\* C7: a component that is not an edge shadow is kept exactly when
\* min_size <= height <= 3*max_size, min_size <= width <= max_size, its pixel
\* count is at least min_content_pixels and its aspect is below 30, with
\* min_size = int(min_char_size*dpi/150) and max_size = int(max_char_size*dpi/150).
C7_SizeAspect ==
  Filtered =>
    \A c \in Components :
      ~IsEdgeShadow(c, arg.img.h, arg.img.w, arg.p.dpi) =>
        (Retained(c) <=> (SizeInBounds(c) /\ AspectBelow30(c)))

\* a line of aspect exactly 30 within the size bounds is dropped, beside a
\* kept component whose height is exactly min_size
C7_Witness ==
  /\ Filtered
  /\ MinSize >= 1
  /\ \E c, d \in Components :
       /\ ~IsEdgeShadow(c, arg.img.h, arg.img.w, arg.p.dpi)
       /\ SizeInBounds(c) /\ AspectIs30(c) /\ Dropped(c)
       /\ ~IsEdgeShadow(d, arg.img.h, arg.img.w, arg.p.dpi)
       /\ d.y_end - d.y_start = MinSize /\ Retained(d)

\* C8: when the final content mask has no set pixel, the result is the full
\* page rectangle, which is not empty.
C8_FailOpen ==
  (ImagePathRan /\ det.content_mask = {}) =>
    /\ det.box = DetPage.rect
    /\ det.box.x1 > det.box.x0
    /\ det.box.y1 > det.box.y0

\* a page with dark pixels of which the filter keeps no component
C8_Witness ==
  /\ ImagePathRan
  /\ Ran("filter")
  /\ det.binary_mask # {}
  /\ det.content_mask = {}
  /\ det.box = DetPage.rect

\* C9: for a content mask that is not empty, the box is the minimum and
\* maximum column and row with a set pixel, moved out by margin*image_width
\* and margin*image_height, clamped to [0, image_width] x [0, image_height],
\* each edge then divided by dpi/72.  Pixel positions are in MarginDen-ths.
C9_BoundsFromExtremes ==
  (ImagePathRan /\ det.content_mask # {}) =>
    LET rows == {q[1] : q \in det.content_mask}
        cols == {q[2] : q \in det.content_mask}
        first_row == CHOOSE r \in rows : \A o \in rows : r <= o
        last_row == CHOOSE r \in rows : \A o \in rows : r >= o
        first_col == CHOOSE c \in cols : \A o \in cols : c <= o
        last_col == CHOOSE c \in cols : \A o \in cols : c >= o
        width == DetPage.img.w * MarginDen
        height == DetPage.img.h * MarginDen
        left == first_col * MarginDen - DetPage.img.w * DetParams.margin
        top == first_row * MarginDen - DetPage.img.h * DetParams.margin
        right == last_col * MarginDen + DetPage.img.w * DetParams.margin
        bottom == last_row * MarginDen + DetPage.img.h * DetParams.margin
        x0_img == IF left < 0 THEN 0 ELSE left
        y0_img == IF top < 0 THEN 0 ELSE top
        x1_img == IF right > width THEN width ELSE right
        y1_img == IF bottom > height THEN height ELSE bottom
    IN /\ det.box.x0 * DetParams.dpi * MarginDen = x0_img * PointsPerInch * UnitsPerPoint
       /\ det.box.y0 * DetParams.dpi * MarginDen = y0_img * PointsPerInch * UnitsPerPoint
       /\ det.box.x1 * DetParams.dpi * MarginDen = x1_img * PointsPerInch * UnitsPerPoint
       /\ det.box.y1 * DetParams.dpi * MarginDen = y1_img * PointsPerInch * UnitsPerPoint

\* content away from the left and right image edges, with a margin
C9_Witness ==
  /\ ImagePathRan
  /\ det.content_mask # {}
  /\ cfg.margin > 0
  /\ det.box.x0 > DetPage.rect.x0
  /\ det.box.x1 < DetPage.rect.x1
  /\ det.box.y1 < DetPage.rect.y1

HasUniformBox == "uniform_box" \in DOMAIN res /\ page_infos # <<>>

\* C10: over a list of per-page boxes that is not empty, get_uniform_crop_box
\* returns the bounding union: the least x0 and y0 and the greatest x1 and y1,
\* so that it contains every per-page box.
C10_UniformUnion ==
  HasUniformBox =>
    LET boxes == {page_infos[k].crop_box : k \in 1 .. Len(page_infos)}
        u == res.uniform_box
    IN /\ \A b \in boxes : u.x0 <= b.x0 /\ u.y0 <= b.y0 /\ b.x1 <= u.x1 /\ b.y1 <= u.y1
       /\ \E b \in boxes : u.x0 = b.x0
       /\ \E b \in boxes : u.y0 = b.y0
       /\ \E b \in boxes : u.x1 = b.x1
       /\ \E b \in boxes : u.y1 = b.y1

\* the boxes (0,0,10,10) and (2,2,12,12) give (0,0,12,12)
C10_Witness ==
  /\ HasUniformBox
  /\ Len(page_infos) = 2
  /\ page_infos[1].crop_box = RectOf(0, 0, 10, 10)
  /\ page_infos[2].crop_box = RectOf(2, 2, 12, 12)
  /\ res.uniform_box = RectOf(0, 0, 12, 12)

\* --- the boxes of one or two pages and their uniform box, for margins of
\* either sign

BoxMargins == {0 - 5, 0, 1, 5}

BoxInputs ==
  [pages : UNION {[1 .. n -> 1 .. Len(AllPages)] : n \in 1 .. 2},
   margin : BoxMargins, use_edge_detection : BOOLEAN, use_text_detection : BOOLEAN]

InitBoxes ==
  /\ Idle
  /\ pc = "boxes"
  /\ arg \in BoxInputs
  /\ res = Nothing

BoxParams == DetectParams([DefaultArgs EXCEPT !.margin = arg.margin,
                                              !.use_edge_detection = arg.use_edge_detection,
                                              !.use_text_detection = arg.use_text_detection])

\* lines 388-410 for each page, then get_uniform_crop_box
PageBoxes ==
  /\ pc = "boxes"
  /\ LET infos == [k \in 1 .. Len(arg.pages) |->
                    LET page == AllPages[arg.pages[k]]
                        d == detect_content_bounds(page, BoxParams, 0)
                    IN PageInfo(k - 1, page, d.box,
                                NumpyEdges(d.content_mask, page.img, arg.margin))]
     IN res' = [infos |-> infos, uniform_box |-> get_uniform_crop_box(infos)]
  /\ pc' = "boxed"
  /\ UNCHANGED <<IdleVars, arg>>

NextBoxes == PageBoxes

SpecBoxes == InitBoxes /\ [][NextBoxes]_vars

\* --------------------------------------------- the crop command of cli.py
\* The command crops every page by percentages of its width and height and
\* scales it to the device.  Percentages are whole numbers here.

MaxCropPages == 3

\* an option is <<v>> when given as v, and None when not given
None == <<>>
Given(v) == <<v>>

\* the options of the command, lines 246-351: the common percentages, the
\* overrides of the left pages (left_*) and of the right pages (right_*)
CropOptions ==
  [device : {"paperwhite", "scribe"}, first_page_right : BOOLEAN,
   left : {1}, right : {2}, top : {3}, bottom : {4},
   left_left : {None, Given(11)}, left_right : {None, Given(12)},
   left_top : {None, Given(13)}, left_bottom : {None, Given(14)},
   right_left : {None, Given(21)}, right_right : {None, Given(22)},
   right_top : {None, Given(23)}, right_bottom : {None, Given(24)}]

\* lines 381-384
use_page_specific(o) ==
  \E v \in {o.left_left, o.left_right, o.left_top, o.left_bottom,
             o.right_left, o.right_right, o.right_top, o.right_bottom} : v # None

\* `override if override is not None else common`
Override(value, common) == IF value # None THEN value[1] ELSE common

\* lines 435-450: crop_left, crop_right, crop_top, crop_bottom
CropMargins(o, page_type) ==
  IF use_page_specific(o)
  THEN IF page_type = "left"
       THEN [left |-> Override(o.left_left, o.left),
             right |-> Override(o.left_right, o.right),
             top |-> Override(o.left_top, o.top),
             bottom |-> Override(o.left_bottom, o.bottom)]
       ELSE [left |-> Override(o.right_left, o.left),
             right |-> Override(o.right_right, o.right),
             top |-> Override(o.right_top, o.top),
             bottom |-> Override(o.right_bottom, o.bottom)]
  ELSE [left |-> o.left, right |-> o.right, top |-> o.top, bottom |-> o.bottom]

\* lines 453-458
CropRect(rect, m) ==
  CropBox(rect.x0 + (BoxWidth(rect) * m.left) \div 100,
          rect.y0 + (BoxHeight(rect) * m.top) \div 100,
          rect.x1 - (BoxWidth(rect) * m.right) \div 100,
          rect.y1 - (BoxHeight(rect) * m.bottom) \div 100)

\* the command is started on a document of pages of 12 x 12 points
InitCrop ==
  /\ doc = [k \in 1 .. MaxCropPages |-> 1]
  /\ cfg = NoArgs
  /\ page_infos = <<>>
  /\ pc = "crop_command"
  /\ idx = 0
  /\ det = NoDetection
  /\ output = <<>>
  /\ progress = <<>>
  /\ arg \in CropOptions
  /\ res = Nothing

\* the first turn of the loop of lines 427-480.  Line 432 calls
\* PDFProcessor.determine_page_type, which the class of core.py does not
\* have: the AttributeError leaves the loop before a page is cut, is caught
\* at line 501 and echoed, and the command exits with code 1 (line 506).
\* The selection of lines 435-458 (CropMargins, CropRect) is never reached,
\* nor is the save of lines 482-484.
CropCommandPage ==
  /\ pc = "crop_command"
  /\ idx < page_count
  /\ pc' = "crop_failed"
  /\ res' = [raised |-> "AttributeError", exit_code |-> 1]
  /\ UNCHANGED <<doc, cfg, page_infos, idx, det, output, progress, arg>>

NextCrop == CropCommandPage

SpecCrop == InitCrop /\ [][NextCrop]_vars

\* --- the reorder command of cli.py on the files of a directory: the
\* original doc and the files the command saved, each a sequence of pages

MaxReorderPages == 4
MaxRuns == 3

\* the loop of lines 808-817 without the exchange: every page in its place
new_order_kept(total_pages) == [k \in 1 .. total_pages |-> k - 1]

\* lines 807-817: for i in range(0, total_pages, 2), the indexes i + 1 and i
\* if both are pages, or else i alone
new_order(total_pages) ==
  LET order[i \in 0 .. total_pages + 1] ==
        IF i >= total_pages THEN <<>>
        ELSE (IF i + 1 < total_pages THEN <<i + 1, i>> ELSE <<i>>) \o order[i + 2]
  IN order[0]

\* the original: a document of 0 .. MaxReorderPages pages, each page with
\* the number it should have, in any order
InitReorder ==
  /\ \E n \in 0 .. MaxReorderPages :
       /\ doc \in [1 .. n -> 1 .. n]
       /\ \A j, k \in 1 .. n : doc[j] = doc[k] => j = k
  /\ cfg = NoArgs
  /\ page_infos = <<>>
  /\ pc = "reorder"
  /\ idx = 0
  /\ det = NoDetection
  /\ output = <<>>
  /\ progress = <<>>
  /\ arg = Nothing
  /\ res = <<>>

\* one run of the command (lines 774-845) on an existing file.  A document
\* of less than 2 pages is left without saving (lines 801-804); otherwise
\* page src_page_idx of the source is shown on page i of the new document
\* (lines 828-836) and the document is saved under its own name (line 838).
reorder ==
  /\ pc = "reorder"
  /\ idx < MaxRuns
  /\ \E input_pdf \in {doc} \cup {output[k] : k \in 1 .. Len(output)} :
       LET total_pages == Len(input_pdf)
           order == new_order(total_pages)
           output_doc == [i \in 1 .. Len(order) |-> input_pdf[order[i] + 1]]
       IN /\ arg' = [input_pdf |-> input_pdf]
          /\ IF total_pages < 2
             THEN /\ res' = Append(res, [input_pdf |-> input_pdf, saved |-> FALSE])
                  /\ UNCHANGED <<output, progress>>
             ELSE /\ res' = Append(res, [input_pdf |-> input_pdf, saved |-> TRUE,
                                         new_order |-> order,
                                         output_doc |-> output_doc])
                  /\ output' = Append(output, output_doc)
                  /\ progress' = [i \in 1 .. Len(order) |-> <<i, total_pages>>]
  /\ idx' = idx + 1
  /\ UNCHANGED <<doc, cfg, page_infos, pc, det>>

NextReorder == reorder

SpecReorder == InitReorder /\ [][NextReorder]_vars

\* ------------------------------------------------------------ the saving

Raised(what) == "raised" \in DOMAIN res /\ res.raised = what
Saved == "saved" \in DOMAIN res
InCropAndSave == Caller \in {"crop_and_save", "optimize_for_kindle"}
Scaling == InCropAndSave /\ HasTarget(arg.target)
PointsOf(n) == [num |-> n, den |-> 1]

\* C11 as stated: with a target size crop_and_save scales every crop box the
\* analysis can produce by min(target_width / crop_width, target_height /
\* crop_height), so that it emits a page for it of that scale (of both
\* directions: the aspect ratio is kept) that exceeds neither the target's
\* width nor its height.
C11_ScaledWithinTarget ==
  Scaling =>
    /\ ~Raised("ZeroDivisionError")
    /\ \A k \in 1 .. Len(output) :
         LET p == output[k]
             scale_w == Frac(arg.target.width * UnitsPerPoint, BoxWidth(p.clip))
             scale_h == Frac(arg.target.height * UnitsPerPoint, BoxHeight(p.clip))
         IN /\ p.scale = (IF FracLeq(scale_w, scale_h) THEN scale_w ELSE scale_h)
            /\ p.width = FracMul(InPoints(BoxWidth(p.clip)), p.scale)
            /\ p.height = FracMul(InPoints(BoxHeight(p.clip)), p.scale)
            /\ FracLeq(p.width, PointsOf(arg.target.width))
            /\ FracLeq(p.height, PointsOf(arg.target.height))

\* every source page has its entry, in order
Complete ==
  /\ Len(page_infos) = page_count
  /\ \A k \in 1 .. page_count : page_infos[k].page_number = k - 1

\* C12: analyze_all_pages, called any number of times, leaves on return one
\* entry for every source page, in order (the list is emptied on entry and
\* grows by the entry of page idx); crop_and_save emits one output page for
\* every entry, in order, from the source page of that entry.  So after
\* analyses that returned, the saved document has page_count pages and its
\* page i is made from source page i.
C12_AllPagesInOrder ==
  /\ pc = "analyzing" =>
       /\ Len(page_infos) = idx
       /\ idx <= page_count
       /\ \A k \in 1 .. idx : page_infos[k].page_number = k - 1
  /\ (pc = "analyzing" /\ idx = page_count) => Complete
  /\ pc = "cropping" =>
       /\ Len(output) = idx
       /\ \A k \in 1 .. idx : output[k].src = page_infos[k].page_number
  /\ (Saved /\ Complete) =>
       /\ Len(output) = page_count
       /\ \A k \in 1 .. page_count : output[k].src = k - 1

\* a document of three pages analysed by a call of analyze_all_pages of its
\* own (no margin: not the analysis crop_and_save runs itself) and then saved
C12_Witness ==
  /\ Saved
  /\ Caller = "crop_and_save"
  /\ cfg.margin = 0
  /\ page_count = 3
  /\ Len(output) = 3
  /\ \A k \in 1 .. 3 : output[k].src = k - 1

\* a page with no detectable text and no dark pixel
BlankPage(page) ==
  /\ InkSpans(page) = {}
  /\ \A pix \in Pixels(page.img) : page.img.px[pix] = GrayMax

\* a saved run over three pages, the second of them blank
BlankSecond ==
  /\ Saved
  /\ Complete
  /\ page_count = 3
  /\ BlankPage(PageAt(1))

AnalysisReports(k) == [j \in 1 .. k |-> <<j, page_count>>]

\* the reports of a call of optimize_for_kindle over n pages that has done k
\* steps, analysed pages first, saved pages after them
OptimizeReports(k, n) ==
  [j \in 1 .. k |-> <<j, 2 * n, IF j <= n THEN "analyze" ELSE "save">>]

\* C14: one report after each page.  A call of analyze_all_pages on N pages
\* reports (1,N), (2,N), ... in order and has reported (N,N) when its loop
\* ends.  A call of optimize_for_kindle reports current = 1, 2, ... with
\* total 2N throughout, the N reports of the analysis before the reports of
\* the saving, and when it has saved, 2N reports, the last with current =
\* total.
C14_Progress ==
  /\ (pc = "analyzing" /\ Caller = "analyze_all_pages") =>
       progress = AnalysisReports(idx)
  /\ (pc = "analyzing" /\ Caller = "optimize_for_kindle") =>
       progress = OptimizeReports(idx, page_count)
  /\ (pc = "cropping" /\ Caller = "optimize_for_kindle") =>
       progress = OptimizeReports(page_count + idx, page_count)
  /\ (Saved /\ Caller = "optimize_for_kindle") =>
       /\ progress = OptimizeReports(2 * page_count, page_count)
       /\ progress[Len(progress)][1] = progress[Len(progress)][2]
  /\ Caller = "optimize_for_kindle" =>
       \A j, k \in 1 .. Len(progress) :
         /\ j < k => progress[j][1] < progress[k][1]
         /\ (progress[j][3] = "analyze" /\ progress[k][3] = "save") => j < k

\* optimize_for_kindle over three pages has saved: six reports, the last (6,6)
C14_Witness ==
  /\ Saved
  /\ Caller = "optimize_for_kindle"
  /\ page_count = 3
  /\ Len(progress) = 6
  /\ progress[3] = <<3, 6, "analyze">>
  /\ progress[4] = <<4, 6, "save">>
  /\ progress[6] = <<6, 6, "save">>

\* C15 as stated: every PageInfo of analyze_all_pages has 0 < content_ratio
\* <= 1, for every detection path and every mask, a mask of one row or one
\* column with zero margin included.
C15_RatioInRange ==
  \A k \in 1 .. Len(page_infos) :
    LET ratio == page_infos[k].content_ratio
    IN ratio.den > 0 /\ 0 < ratio.num /\ ratio.num <= ratio.den

Boxed == pc = "boxed"

Ordered(b) == b.x0 <= b.x1 /\ b.y0 <= b.y1

AllOrdered ==
  /\ \A k \in 1 .. Len(res.infos) : Ordered(res.infos[k].crop_box)
  /\ Ordered(res.uniform_box)

\* C16 as stated: every crop box (of the text path, of the image path, the
\* full page, the uniform box) has x1 >= x0 and y1 >= y0, for all span
\* positions, masks and margin fractions.
C16_OrderedAlways == Boxed => AllOrdered

\* C16: every crop box has x1 >= x0 and y1 >= y0 when the margin fraction is
\* not negative; the box of a span beside the page or of a mask of one row
\* or column then has equal edges.
C16_OrderedMargin == (Boxed /\ arg.margin >= 0) => AllOrdered

\* a span left of the page with margin 0: the box (0, 2, 0, 5), x1 = x0, and
\* the uniform box of it and of the box (2, 2, 12, 12) of a second page
C16_Witness ==
  /\ Boxed
  /\ arg.margin = 0
  /\ Len(res.infos) = 2
  /\ res.infos[1].crop_box = RectOf(0, 2, 0, 5)
  /\ res.infos[2].crop_box = RectOf(2, 2, 12, 12)
  /\ res.uniform_box = RectOf(0, 2, 12, 12)

\* C17 as stated: after an analysis that was left between two pages no
\* partial state persists, so that a later crop_and_save on the processor
\* does not work from an incomplete list: what it saves has one page for
\* every source page.
C17_SavesEveryPage == Saved => Len(output) = page_count

\* the page of index i as the crop command has treated it
\* the command has come to its end
CropCommandEnded == pc # "crop_command"

\* the side of page i (from 0) as the claim has it: that of the first page
\* for an even i, the other side for an odd i
SideOf(i, first_page_right) ==
  IF (i % 2 = 0) = first_page_right THEN "right" ELSE "left"

\* the overrides of one side, and the common values
SideOverrides(o, side) ==
  IF side = "left"
  THEN [left |-> o.left_left, right |-> o.left_right,
        top |-> o.left_top, bottom |-> o.left_bottom]
  ELSE [left |-> o.right_left, right |-> o.right_right,
        top |-> o.right_top, bottom |-> o.right_bottom]

Common(o) == [left |-> o.left, right |-> o.right, top |-> o.top, bottom |-> o.bottom]

\* C18: in the crop command page i (from 0) is on the side of the first
\* page when i is even and on the other side when i is odd; each page is cut
\* and, when an override is supplied, each margin of the page is the
\* override of the page's side for that margin, or the common value where
\* that override is not supplied; when no override is supplied every page
\* has the common values.  The crop rectangle is cut by these margins.
C18_SideMargins ==
  CropCommandEnded =>
    \A i \in 0 .. page_count - 1 :
      /\ i < Len(output)
      /\ LET p == output[i + 1]
             mine == SideOverrides(arg, p.page_type)
         IN /\ p.page_type = SideOf(i, arg.first_page_right)
            /\ \A edge \in {"left", "right", "top", "bottom"} :
                 p.margins[edge] =
                   (IF use_page_specific(arg) /\ mine[edge] # None
                    THEN mine[edge][1] ELSE Common(arg)[edge])
            /\ p.margins = CropMargins(arg, p.page_type)
            /\ p.clip = CropRect(PageAt(i).rect, p.margins)

\* the result of the detection on page i with the arguments p, whatever the
\* processor has done before
Afresh(i, p) ==
  {detect_content_bounds(PageAt(i), p, otsu).box : otsu \in OtsuChoices(PageAt(i), p)}

DetectedAlone == pc = "idle" /\ "detected" \in DOMAIN res

\* an analysis has begun, with the arguments cfg
Analysed == cfg # NoArgs

\* the state of the processor
processor == <<doc, page_infos, cfg, idx, pc>>

\* C19: a call of the detection leaves page_infos and the rest of the
\* processor as they were, and what it returns for page i is decided by page
\* i and the arguments: every entry of page_infos is the box the detection
\* gives for its page alone with the arguments of the analysis, and a call
\* from outside returns for a page what the analysis has stored for it when
\* the arguments are the same, whichever pages were analysed before it.
C19_DetectionIsPure ==
  /\ [](Analysed =>
          \A k \in 1 .. Len(page_infos) :
            page_infos[k].crop_box \in Afresh(page_infos[k].page_number, DetectParams(cfg)))
  /\ [](DetectedAlone =>
          /\ det.box \in Afresh(res.detected, res.params)
          /\ (Analysed /\ Len(page_infos) > res.detected /\ res.params = DetectParams(cfg)) =>
               det.box = page_infos[res.detected + 1].crop_box)
  /\ [][Detect => UNCHANGED processor]_vars

\* a call for the last page of three after an analysis with the same
\* arguments: page_infos keeps its three entries and the box is the stored one
C19_Witness ==
  /\ DetectedAlone
  /\ res.detected = 2
  /\ Analysed
  /\ res.params = DetectParams(cfg)
  /\ Len(page_infos) = 3
  /\ det.box = page_infos[3].crop_box
  /\ det.box # page_infos[1].crop_box

Optimizing == Caller = "optimize_for_kindle"

\* C20: optimize_for_kindle takes the profile of the device's name when the
\* name is a key of KINDLE_PROFILES and the profile of 'paperwhite', 1236 x
\* 1648, when it is not; the lookup raises nothing, the run goes on to the
\* analysis and the saving with that target, and every page it emits of a
\* crop of non-zero size is scaled to fit it.
C20_ProfileFallback ==
  Optimizing =>
    /\ arg.device = "paperwhite" => arg.target = [width |-> 1236, height |-> 1648]
    /\ arg.device = "oasis" => arg.target = [width |-> 1264, height |-> 1680]
    /\ arg.device = "basic" => arg.target = [width |-> 1072, height |-> 1448]
    /\ arg.device = "scribe" => arg.target = [width |-> 1860, height |-> 2480]
    /\ arg.device \notin {"paperwhite", "oasis", "basic", "scribe"} =>
         arg.target = [width |-> 1236, height |-> 1648]
    /\ ~Raised("KeyError")
    /\ \A k \in 1 .. Len(output) :
         LET p == output[k]
         IN (BoxWidth(p.clip) > 0 /\ BoxHeight(p.clip) > 0) =>
              /\ FracLeq(p.width, PointsOf(arg.target.width))
              /\ FracLeq(p.height, PointsOf(arg.target.height))
              /\ \/ p.width = PointsOf(arg.target.width)
                 \/ p.height = PointsOf(arg.target.height)

\* the device 'kobo': three pages saved with the uniform crop of 12 x 12
\* points, each scaled by 103 to 1236 x 1236
C20_Witness ==
  /\ Optimizing
  /\ Saved
  /\ arg.device = "kobo"
  /\ Len(output) = 3
  /\ output[1].clip = RectOf(0, 0, 12, 12)
  /\ output[1].scale = PointsOf(103)
  /\ output[1].width = PointsOf(1236)
  /\ output[1].height = PointsOf(1236)

\* ------------------------------------------------------------ the labelling

\* two pixels that touch at a corner only
Diagonal(p, q) == Abs(p[1] - q[1]) = 1 /\ Abs(p[2] - q[2]) = 1

SameComponent(p, q) == \E c \in Components : p \in c.pixels /\ q \in c.pixels

\* C21: labelling is 8-connected: two foreground pixels that touch at a corner
\* only lie in the same component, so that the size and aspect tests see the
\* pixel count and the bounding box of the joined region.
C21_EightConnected ==
  Filtered =>
    \A p, q \in res.binary_mask :
      Diagonal(p, q) =>
        /\ SameComponent(p, q)
        /\ \A c \in Components :
             p \in c.pixels =>
               /\ c.component_size >= 2
               /\ c.y_end - c.y_start >= 2 /\ c.x_end - c.x_start >= 2

\* ------------------------------------------------- the mask of Otsu's mode

GrayValues == {arg.img.px[q] : q \in Pixels(arg.img)}

Darkest == {q \in Pixels(arg.img) : arg.img.px[q] = SetMin(GrayValues)}

\* C22: in Otsu's mode, with mask = gray < threshold, every image of two or
\* more gray values gets a mask that is not empty and holds the darkest
\* pixels; ink at 0 on a background of 255 gets the ink as its mask.
C22_OtsuMaskHasInk ==
  (Binarized /\ Cardinality(GrayValues) >= 2) =>
    /\ res.binary_mask # {}
    /\ Darkest \subseteq res.binary_mask
    /\ GrayValues = {0, GrayMax} => res.binary_mask = Darkest

\* ------------------------------------------------- the box and its pixels

\* the box, in page units, of the pixel in row q[1] and column q[2]
PixelBox(q) ==
  CropBox(ToPage(q[2] * MarginDen, DetParams.dpi),
          ToPage(q[1] * MarginDen, DetParams.dpi),
          ToPage((q[2] + 1) * MarginDen, DetParams.dpi),
          ToPage((q[1] + 1) * MarginDen, DetParams.dpi))

Covers(box, inner) ==
  /\ box.x0 <= inner.x0 /\ inner.x1 <= box.x1
  /\ box.y0 <= inner.y0 /\ inner.y1 <= box.y1

\* C23: for a content mask that is not empty and a margin >= 0, zero
\* included, the box of the image path covers every set pixel of the mask,
\* those of the last content row and column too, and has a width and a
\* height above zero.
C23_BoxCoversMask ==
  (ImagePathRan /\ det.content_mask # {} /\ DetParams.margin >= 0) =>
    /\ \A q \in det.content_mask : Covers(det.box, PixelBox(q))
    /\ det.box.x1 > det.box.x0
    /\ det.box.y1 > det.box.y0

\* ------------------------------------------------------ the reorder command

\* the runs of the command that saved a document
SavedRuns == {res[k] : k \in {j \in 1 .. Len(res) : res[j].saved}}

IsPermutation(order, n) ==
  Len(order) = n /\ {order[j] : j \in 1 .. n} = 0 .. n - 1

\* the pages (2k, 2k+1) exchanged, a last page without partner in its place
PairsSwapped(order, n) ==
  /\ \A k \in 0 .. n : 2 * k + 1 < n =>
       order[2 * k + 1] = 2 * k + 1 /\ order[2 * k + 2] = 2 * k
  /\ n % 2 = 1 => order[n] = n - 1

\* a document whose pages come as 2,1,4,3,...
OrderedInPairs(pages) ==
  \A j \in 1 .. Len(pages) :
    pages[j] = IF j % 2 = 0 THEN j - 1
               ELSE IF j < Len(pages) THEN j + 1 ELSE j

InOrder(pages) == \A j \in 1 .. Len(pages) : pages[j] = j

\* C24: for every page count n >= 2 the new page order is a permutation of
\* 0..n-1 that exchanges each pair (2k, 2k+1) and leaves the last page of an
\* odd-length document in place; the saved document has the pages of the
\* input in that order, so 2,1,4,3,... comes out as 1,2,3,4,..., and the
\* command applied to its own output gives back the original order.
C24_ReorderSwapsPairs ==
  /\ \A k \in 1 .. Len(res) : res[k].saved <=> Len(res[k].input_pdf) >= 2
  /\ \A r \in SavedRuns :
       LET n == Len(r.input_pdf)
       IN /\ IsPermutation(r.new_order, n)
          /\ PairsSwapped(r.new_order, n)
          /\ Len(r.output_doc) = n
          /\ \A j \in 1 .. n : r.output_doc[j] = r.input_pdf[r.new_order[j] + 1]
          /\ OrderedInPairs(r.input_pdf) => InOrder(r.output_doc)
          /\ \A q \in SavedRuns :
               r.input_pdf = q.output_doc => r.output_doc = q.input_pdf

\* a document of odd length that came as 2,1,3, was put in order by one
\* run and was given back as it came by a run on the saved document
C24_Witness ==
  \E r, q \in SavedRuns :
    /\ Len(r.input_pdf) % 2 = 1 /\ Len(r.input_pdf) >= 3
    /\ r.input_pdf = doc
    /\ OrderedInPairs(doc) /\ ~InOrder(doc)
    /\ InOrder(r.output_doc)
    /\ q.input_pdf = r.output_doc
    /\ q.output_doc = doc

====
